---- MODULE Spec2Model ----
(***************************************************************************)
(* The HTTP server engine of src/utils/http.ts (class HttpServer) and its  *)
(* streaming multipart parser, as a state machine over one accepted        *)
(* connection, with the response builder of createResponse, and over two   *)
(* connections that are open at once.                                      *)
(*                                                                         *)
(* Byte strings.  A Buffer or a JS string is a sequence of runs <<u, n>>:  *)
(* the unit u repeated n times.  A unit is one byte ("a", "\r") or a word  *)
(* of several bytes that the code never looks into ("HTTP/1.1"); UnitLen   *)
(* gives its length in bytes.  Every delimiter the code searches for is a  *)
(* sequence of whole units, and the client's requests are written in the   *)
(* same units, so a search over units finds what the search over bytes     *)
(* finds.  Only the filler byte Filler ever has n > 1: a run of filler     *)
(* stands for a long stretch of payload that holds no delimiter.  Offsets  *)
(* and lengths are in bytes, as in the code.                               *)
(***************************************************************************)
EXTENDS Integers, Sequences, FiniteSets, TLC

VARIABLES
    conn,       \* the connection's closure state, socket and parser
    upstream,   \* the bytes the client sends on the connection, first to last
    inflight,   \* the part of upstream that the socket has not delivered yet
    clientEnd,  \* the client's FIN was delivered as the socket's 'end' event
    timeouts,   \* number of 'timeout' events so far
    task,       \* what a handler that answers in several steps has left to do
    peer,       \* a second connection that is open at the same time, with its client
    reader,     \* a call of a tag-reading function on a file, and the art cache
    parser      \* the multipart parser of the server class kept in SelectableSongItem.tsx

vars == <<conn, upstream, inflight, clientEnd, timeouts, task, peer, reader, parser>>

----------------------------------------------------------------------------
(* Byte strings                                                            *)

Filler == "z"

\* Length in bytes of a unit.
UnitLen(u) ==
    CASE u \in {"GET", "mp3"} -> 3
      [] u \in {"POST", "file"} -> 4
      [] u \in {"name=\""} -> 6
      [] u \in {"HTTP/1.1"} -> 8
      [] u \in {"boundary=", "form-data"} -> 9
      [] u \in {"Content-Type", "content-type"} -> 12
      [] u \in {"Content-Length", "content-length"} -> 14
      [] u \in {"Content-Disposition", "content-disposition",
                "multipart/form-data"} -> 19
      [] u \in {",122", "echo", "nope", "gone", "tiny"} -> 4
      [] u \in {"close", "empty", "under", "exact", "large", "throw", "songs"} -> 5
      [] u \in {":id"} -> 3
      [] u \in {"<html>"} -> 6
      [] u \in {"text/html"} -> 9
      [] u \in {"Internal Server Error"} -> 21
      [] u \in {"upload"} -> 6
      [] u \in {"Not Found"} -> 9
      [] u \in {"text/plain", "audio/mpeg"} -> 10
      [] u \in {"File not found"} -> 14
      [] u \in {"application/json"} -> 16
      [] u \in {"Error sending file"} -> 18
      [] u \in {"application/octet-stream"} -> 24
      [] u \in {"No files were uploaded."} -> 23
      [] u \in {"{\"type\":\"Buffer\",\"data\":["} -> 25
      [] u \in {"Files uploaded successfully"} -> 27
      [] OTHER -> 1

\* A text written unit by unit, as a byte string.
Txt(s) == [i \in 1..Len(s) |-> <<s[i], 1>>]

\* A run of n filler bytes.
Bulk(n) == IF n > 0 THEN << <<Filler, n>> >> ELSE << >>

Weight(e) == e[2] * UnitLen(e[1])

\* The bytes of the runs lo..hi of b
RECURSIVE SumRange(_, _, _)
SumRange(b, lo, hi) ==
    IF lo > hi THEN 0
    ELSE IF lo = hi THEN Weight(b[lo])
    ELSE SumRange(b, lo, (lo + hi) \div 2) + SumRange(b, (lo + hi) \div 2 + 1, hi)

\* buffer.length, Buffer.byteLength(string)
BLen(b) == SumRange(b, 1, Len(b))

\* The byte offset of the k-th run of b
Offset(b, k) == SumRange(b, 1, k - 1)

\* x followed by y, the filler runs that meet made one run
Meet(x, y) ==
    IF x # << >> /\ y # << >> /\ x[Len(x)][1] = Filler /\ y[1][1] = Filler
    THEN SubSeq(x, 1, Len(x) - 1)
         \o << <<Filler, x[Len(x)][2] + y[1][2]>> >>
         \o SubSeq(y, 2, Len(y))
    ELSE x \o y

\* The runs lo..hi of b: adjacent filler runs are one run; empty runs vanish
RECURSIVE NormRange(_, _, _)
NormRange(b, lo, hi) ==
    IF lo > hi THEN << >>
    ELSE IF lo = hi THEN (IF b[lo][2] > 0 THEN <<b[lo]>> ELSE << >>)
    ELSE Meet(NormRange(b, lo, (lo + hi) \div 2),
              NormRange(b, (lo + hi) \div 2 + 1, hi))

Norm(b) == NormRange(b, 1, Len(b))

\* Buffer.concat([a, b]); string +
Cat(a, b) == Meet(a, b)

\* How many of the runs lo..hi of b, taken in order, lie within n bytes
RECURSIVE CountFit(_, _, _, _)
CountFit(b, lo, hi, n) ==
    IF lo > hi THEN 0
    ELSE IF lo = hi THEN (IF Weight(b[lo]) <= n THEN 1 ELSE 0)
    ELSE IF SumRange(b, lo, (lo + hi) \div 2) <= n
         THEN ((lo + hi) \div 2 - lo + 1)
              + CountFit(b, (lo + hi) \div 2 + 1, hi,
                         n - SumRange(b, lo, (lo + hi) \div 2))
    ELSE CountFit(b, lo, (lo + hi) \div 2, n)

\* count times the unit u, nothing for a count of 0
Run(u, count) == IF count > 0 THEN << <<u, count>> >> ELSE << >>

\* The first n bytes of b, n > 0, of which b's first k runs are whole.  A cut
\* inside run k + 1 keeps the whole units before it.
TakeRuns(b, n, k) ==
    IF k >= Len(b) THEN b
    ELSE SubSeq(b, 1, k)
         \o Run(b[k + 1][1], (n - SumRange(b, 1, k)) \div UnitLen(b[k + 1][1]))

\* The first n bytes of b
Take(b, n) ==
    IF n <= 0 THEN << >> ELSE TakeRuns(b, n, CountFit(b, 1, Len(b), n))

\* b without its first n bytes, n > 0, of which b's first k runs are whole
DropRuns(b, n, k) ==
    IF k >= Len(b) THEN << >>
    ELSE Run(b[k + 1][1],
             b[k + 1][2] - (n - SumRange(b, 1, k)) \div UnitLen(b[k + 1][1]))
         \o SubSeq(b, k + 2, Len(b))

\* b without its first n bytes
Drop(b, n) ==
    IF n <= 0 THEN b ELSE DropRuns(b, n, CountFit(b, 1, Len(b), n))

\* buffer.slice(from, to), string.slice(from, to): bytes from..to-1.
Slice(b, from, to) == Take(Drop(b, from), to - from)

\* pat occurs in b starting with b's k-th run.
MatchAt(b, k, pat) ==
    /\ k + Len(pat) - 1 <= Len(b)
    /\ \A j \in 1..Len(pat) : b[k + j - 1] = pat[j]

\* The least element of a non-empty set of integers
MinOf(S) == CHOOSE k \in S : \A j \in S : k <= j

\* The greatest element of a non-empty set of integers
MaxOf(S) == CHOOSE k \in S : \A j \in S : k >= j

\* The offset off is one of start, start + stride, start + 2 stride, ...
OnStride(off, start, stride) == off >= start /\ (off - start) % stride = 0

\* The byte offset of the first of the runs S of b, -1 when S is empty
FirstOffset(b, S) == IF S = {} THEN -1 ELSE Offset(b, MinOf(S))

\* The byte offset of the first occurrence of pat in b at an offset start,
\* start + stride, start + 2 stride, ...; -1 when there is none
Find(b, pat, start, stride) ==
    FirstOffset(b, {k \in 1..Len(b) :
                       MatchAt(b, k, pat) /\ OnStride(Offset(b, k), start, stride)})

\* buffer.indexOf(pat, start), string.indexOf(pat, start)
IndexOf(b, pat, start) == Find(b, pat, start, 1)

\* buffer.includes(pat), string.includes(pat)
Includes(b, pat) == IndexOf(b, pat, 0) # -1

\* string.split(sep): every piece, the empty ones too; i is the offset of the
\* first sep in s
RECURSIVE StrSplit(_, _)
SplitAt(s, sep, i) ==
    IF i = -1 THEN <<s>>
    ELSE <<Take(s, i)>> \o StrSplit(Drop(s, i + BLen(sep)), sep)

StrSplit(s, sep) == SplitAt(s, sep, IndexOf(s, sep, 0))

IsSpace(e) == e[1] \in {" ", "\r", "\n", "\t"}

\* The runs of s that are not white space
NonSpace(s) == {i \in 1..Len(s) : ~IsSpace(s[i])}

\* s from the first to the last of its runs S
Between(s, S) == IF S = {} THEN << >> ELSE SubSeq(s, MinOf(S), MaxOf(S))

\* string.trim()
Trim(s) == Between(s, NonSpace(s))

LowerUnit(u) ==
    CASE u = "Content-Type" -> "content-type"
      [] u = "Content-Length" -> "content-length"
      [] u = "Content-Disposition" -> "content-disposition"
      [] OTHER -> u

\* string.toLowerCase()
ToLowerCase(s) == [i \in 1..Len(s) |-> <<LowerUnit(s[i][1]), s[i][2]>>]

CRLF == Txt(<<"\r", "\n">>)
CRLF2 == Txt(<<"\r", "\n", "\r", "\n">>)

----------------------------------------------------------------------------
(* Request parsing: src/utils/http.ts, HttpServer                          *)

MAX_BUFFER_SIZE == 50 * 1024 * 1024

\* The buffer length from which findInBuffer uses its own search loop.
LARGE_BUFFER == 10000

appendToBuffer(existing, chunk) == Cat(existing, chunk)

\* For a buffer of LARGE_BUFFER bytes or more the loop advances by the length of
\* `search`: it only looks at the offsets start, start + n, start + 2n, ...
findInBuffer(buffer, search, start) ==
    IF BLen(buffer) < LARGE_BUFFER
    THEN IndexOf(buffer, search, start)
    ELSE Find(buffer, search, start, BLen(search))

\* The loop of splitBuffer from offset start, index the offset of the next
\* delimiter
RECURSIVE SplitFrom(_, _, _)
SplitPart(buffer, delimiter, start, index) ==
    IF index # -1
    THEN <<Slice(buffer, start, index)>>
         \o SplitFrom(buffer, delimiter, index + BLen(delimiter))
    ELSE IF start < BLen(buffer) THEN <<Drop(buffer, start)>> ELSE << >>

SplitFrom(buffer, delimiter, start) ==
    SplitPart(buffer, delimiter, start, findInBuffer(buffer, delimiter, start))

splitBuffer(buffer, delimiter) == SplitFrom(buffer, delimiter, 0)

RECURSIVE JoinFrom(_, _, _)
JoinFrom(parts, delimiter, i) ==
    IF i > Len(parts) THEN << >>
    ELSE IF i < Len(parts)
         THEN Cat(Cat(parts[i], delimiter), JoinFrom(parts, delimiter, i + 1))
    ELSE parts[i]

joinBuffer(parts, delimiter) == JoinFrom(parts, delimiter, 1)

\* obj[key] = value on a JS object used as a map
SetKey(obj, key, value) == (key :> value) @@ obj

\* obj[key]: << >> for undefined, <<value>> otherwise
GetKey(obj, key) == IF key \in DOMAIN obj THEN <<obj[key]>> ELSE << >>

\* The index of the first blank header line, 0 when there is none.
RECURSIVE BlankLine(_, _)
BlankLine(headerLines, i) ==
    IF i > Len(headerLines) THEN 0
    ELSE IF Trim(headerLines[i]) = << >> THEN i
    ELSE BlankLine(headerLines, i + 1)

\* headers after one header line split at ': ' into kv
HeaderLine(headers, kv) ==
    IF Len(kv) >= 2 /\ kv[1] # << >> /\ kv[2] # << >>
    THEN SetKey(headers, ToLowerCase(kv[1]), kv[2])
    ELSE headers

\* The header loop of parseBufferRequest over headerLines[i..last].
RECURSIVE HeaderLoop(_, _, _, _)
HeaderLoop(headerLines, i, last, headers) ==
    IF i > last THEN headers
    ELSE HeaderLoop(headerLines, i + 1, last,
                    HeaderLine(headers, StrSplit(headerLines[i], Txt(<<":", " ">>))))

\* query after one parameter split at '=' into kv
QueryParam(query, kv) ==
    IF kv[1] # << >>
    THEN SetKey(query, kv[1], IF Len(kv) >= 2 THEN kv[2] ELSE << >>)
    ELSE query

\* The query loop of parseBufferRequest over the '&'-separated parameters.
RECURSIVE QueryLoop(_, _, _)
QueryLoop(params, i, query) ==
    IF i > Len(params) THEN query
    ELSE QueryLoop(params, i + 1,
                   QueryParam(query, StrSplit(params[i], Txt(<<"=">>))))

\* The query of a path split at '?' into pq
QueryOf(pq) ==
    IF Len(pq) >= 2 /\ pq[2] # << >>
    THEN QueryLoop(StrSplit(pq[2], Txt(<<"&">>)), 1, << >>)
    ELSE << >>

\* The request built from the method, the path and the lines after the request
\* line, of which line blank is the first empty one (0: none is)
RequestOf(method, path, headerLines, blank) ==
    [method |-> method,
     url |-> path,
     headers |-> HeaderLoop(headerLines, 1,
                            IF blank = 0 THEN Len(headerLines) ELSE blank - 1,
                            << >>),
     body |-> joinBuffer(SubSeq(headerLines, blank + 1, Len(headerLines)), CRLF),
     params |-> << >>,
     query |-> QueryOf(StrSplit(path, Txt(<<"?">>))),
     files |-> << >>]

\* The request of a request line split at ' ' into words
RequestLineOf(words, headerLines) ==
    IF words[1] = << >> \/ Len(words) < 2 \/ words[2] = << >> THEN << >>
    ELSE <<RequestOf(words[1], words[2], headerLines, BlankLine(headerLines, 1))>>

\* The request of the lines of the data
RequestOfLines(lines) ==
    IF lines = << >> THEN << >>
    ELSE RequestLineOf(StrSplit(lines[1], Txt(<<" ">>)), Tail(lines))

\* << >> for null, <<request>> otherwise.
parseBufferRequest(data) == RequestOfLines(splitBuffer(data, CRLF))

----------------------------------------------------------------------------
(* The socket and the response object: createResponse                      *)

\* JS values passed to send: a string or a Buffer
Str(v) == [t |-> "string", v |-> v]
Buf(v) == [t |-> "Buffer", v |-> v]

\* The decimal digits of n: String(n)
RECURSIVE Digits(_)
Digits(n) ==
    IF n < 10 THEN Txt(<<CASE n = 0 -> "0" [] n = 1 -> "1" [] n = 2 -> "2"
                           [] n = 3 -> "3" [] n = 4 -> "4" [] n = 5 -> "5"
                           [] n = 6 -> "6" [] n = 7 -> "7" [] n = 8 -> "8"
                           [] n = 9 -> "9">>)
    ELSE Digits(n \div 10) \o Digits(n % 10)

\* The value of a payload byte
ByteCode(u) ==
    CASE u = "\n" -> 10 [] u = "\r" -> 13 [] u = "-" -> 45
      [] u = "a" -> 97 [] u = "b" -> 98 [] u = "d" -> 100 [] u = "e" -> 101
      [] u = "h" -> 104 [] u = "k" -> 107 [] u = "l" -> 108 [] u = "o" -> 111
      [] u = "x" -> 120 [] u = "y" -> 121 [] u = "z" -> 122

\* The elements of JSON's "data" array for the runs k.. of a Buffer
RECURSIVE JsonData(_, _)
JsonData(b, k) ==
    IF k > Len(b) THEN << >>
    ELSE (IF k > 1 THEN Txt(<<",">>) ELSE << >>)
         \o Digits(ByteCode(b[k][1]))
         \o (IF b[k][2] > 1 THEN << <<",122", b[k][2] - 1>> >> ELSE << >>)
         \o JsonData(b, k + 1)

\* JSON.stringify(buffer): Buffer.prototype.toJSON gives {type, data}
JSONStringify(b) ==
    Txt(<<"{\"type\":\"Buffer\",\"data\":[">>) \o JsonData(b, 1) \o Txt(<<"]", "}">>)

STATUS_CODES(code) ==
    CASE code = 200 -> "OK" [] code = 201 -> "Created" [] code = 204 -> "No Content"
      [] code = 400 -> "Bad Request" [] code = 401 -> "Unauthorized"
      [] code = 403 -> "Forbidden" [] code = 404 -> "Not Found"
      [] code = 500 -> "Internal Server Error"
      [] OTHER -> "Unknown"

NewSocket == [wire |-> << >>, ended |-> FALSE]

\* socket.write(w): the write is recorded with whether end() was called before it
SocketWrite(sock, w) ==
    [sock EXCEPT !.wire = Append(@, [w EXCEPT !.afterEnd = sock.ended])]

\* socket.end()
SocketEnd(sock) == [sock EXCEPT !.ended = TRUE]

\* A status line with headers and a body, written by one socket.write
ResponseHead(code, reason, headers, body) ==
    [head |-> TRUE, status |-> code, reason |-> reason, headers |-> headers,
     body |-> body, afterEnd |-> FALSE]

\* Bytes written with no status line before them
Raw(bytes) ==
    [head |-> FALSE, status |-> 0, reason |-> "", headers |-> << >>,
     body |-> bytes, afterEnd |-> FALSE]

createResponse ==
    [statusCode |-> 200,
     headers |-> ("Content-Type" :> Txt(<<"text/plain">>))
                 @@ ("Connection" :> Txt(<<"close">>))]

\* res.status(code)
status(res, code) == [res EXCEPT !.statusCode = code]

\* res.setHeader(name, value)
setHeader(res, name, value) == [res EXCEPT !.headers = SetKey(@, name, value)]

\* What send writes for a body: a string as it is, anything else through
\* JSON.stringify
ContentOf(body) == IF body.t = "string" THEN body.v ELSE JSONStringify(body.v)

\* The write of send for the response res and the content
SendWrite(res, sock, content) ==
    [res |-> res,
     sock |-> SocketEnd(SocketWrite(sock,
                  ResponseHead(res.statusCode, STATUS_CODES(res.statusCode),
                               res.headers, content)))]

\* The response with its Content-Length set for the content, written
SendContent(res, sock, content) ==
    SendWrite(setHeader(res, "Content-Length", Digits(BLen(content))), sock, content)

\* res.send(body) on the response res of socket sock: the response and the socket after it
send(res, sock, body) == SendContent(res, sock, ContentOf(body))

----------------------------------------------------------------------------
(* The other terminal methods of the response: json, stream, sendFile      *)

\* res.json(body) for a Buffer body
json(res, sock, body) ==
    send(setHeader(res, "Content-Type", Txt(<<"application/json">>)), sock,
         Str(JSONStringify(body.v)))

\* The status line and the headers, written by one socket.write with no body
WriteHead(res, sock) ==
    SocketWrite(sock, ResponseHead(res.statusCode, STATUS_CODES(res.statusCode),
                                   res.headers, << >>))

\* if (options.contentType) res.headers['Content-Type'] = options.contentType
WithType(res, contentType) ==
    IF contentType # << >> /\ contentType[1] # << >>
    THEN setHeader(res, "Content-Type", contentType[1])
    ELSE res

\* if (options.contentLength) res.headers['Content-Length'] = String(...)
WithLength(res, contentLength) ==
    IF contentLength # << >> /\ contentLength[1] # 0
    THEN setHeader(res, "Content-Length", Digits(contentLength[1]))
    ELSE res

\* stream once the headers are set: the head, the bytes, the end
StreamWrite(res, sock, readable) ==
    [res |-> res,
     sock |-> SocketEnd(SocketWrite(WriteHead(res, sock), Raw(readable.v)))]

\* res.stream(readable, options) for a readable that is a Buffer or a string
stream(res, sock, readable, options) ==
    StreamWrite(WithLength(WithType(res, options.contentType), options.contentLength),
                sock, readable)

\* stream up to the test of the readable: the head is written with no body
StreamBegin(res, sock) == [res |-> res, sock |-> WriteHead(res, sock)]

\* res.stream(readable, options) for a readable that emits events or is a promise:
\* the listeners are registered after the head was written
StreamHead(res, sock, options) ==
    StreamBegin(WithLength(WithType(res, options.contentType), options.contentLength),
                sock)

\* readable.on('data', ...): the chunk is written
StreamData(sock, chunk) == SocketWrite(sock, Raw(chunk))

\* readable.on('end', ...), readable.on('error', ...) and the promise's catch
StreamEnd(sock) == SocketEnd(sock)

\* The promise's then: the data is written and the socket ended
StreamResolved(sock, data) == SocketEnd(SocketWrite(sock, Raw(data)))

\* res.stream(readable, options) for any other readable: the head is written,
\* the socket ended and an Error thrown
StreamUnsupported(res, sock, options) ==
    [res |-> StreamHead(res, sock, options).res,
     sock |-> SocketEnd(StreamHead(res, sock, options).sock)]

\* The file size from which sendFile writes the file chunk by chunk, and the
\* size of a chunk
FILE_THRESHOLD == 1024 * 1024
CHUNK_SIZE == 64 * 1024

\* The files of the device
Path(name) == Txt(<<name, ".", "mp3">>)

FileBytes(path) ==
    CASE path = Path("empty") -> << >>
      [] path = Path("tiny") -> Txt(<<"x">>) \o Bulk(3) \o Txt(<<"y">>)
      [] path = Path("under") ->
             Txt(<<"x">>) \o Bulk(FILE_THRESHOLD - 3) \o Txt(<<"y">>)
      [] path = Path("exact") ->
             Txt(<<"x">>) \o Bulk(FILE_THRESHOLD - 2) \o Txt(<<"y">>)
      [] path = Path("large") ->
             Txt(<<"x">>) \o Bulk(2 * FILE_THRESHOLD + 3) \o Txt(<<"y">>)
      [] OTHER -> << >>

\* fileSystem.getInfoAsync(filePath)
getInfoAsync(path) ==
    [exists |-> path # Path("gone"), size |-> BLen(FileBytes(path))]

\* A Base64 string: what it encodes, its number of characters and of '=' at its end
Base64Of(b) ==
    [data |-> b, chars |-> 4 * ((BLen(b) + 2) \div 3), pad |-> (3 - (BLen(b) % 3)) % 3]

\* Buffer.from(content, 'base64')
FromBase64(content) == Take(content.data, (content.chars \div 4) * 3 - content.pad)

\* fileSystem.readAsStringAsync(filePath, {encoding: Base64, position, length})
readAsStringAsync(path, position, length) ==
    Base64Of(Slice(FileBytes(path), position, position + length))

\* string.split('.').pop()
LastPiece(pieces) == pieces[Len(pieces)]

\* The type of the extension ext
MimeTypeOf(ext) ==
    CASE ext = Txt(<<"mp3">>) -> Txt(<<"audio/mpeg">>)
      [] ext = Txt(<<"json">>) -> Txt(<<"application/json">>)
      [] OTHER -> Txt(<<"application/octet-stream">>)

getMimeType(filename) ==
    MimeTypeOf(ToLowerCase(LastPiece(StrSplit(filename, Txt(<<".">>)))))

\* A sendFile call that waits: pc says for what
NewJob(path) == [path |-> path, pc |-> "info", position |-> 0, failed |-> FALSE]

\* The end of a sendFile call after r, the outcome of a send
Finished(r, job) == [res |-> r.res, sock |-> r.sock, job |-> [job EXCEPT !.pc = "done"]]

\* if (fileInfo.size) res.setHeader('Content-Length', String(fileInfo.size))
WithSize(res, size) ==
    IF size # 0 THEN setHeader(res, "Content-Length", Digits(size)) ELSE res

\* sendFile once the headers are set: a file below the threshold is read whole,
\* for any other the head is written and the first chunk is read
SendFileSized(res, sock, job, size) ==
    IF size = 0 \/ size < FILE_THRESHOLD
    THEN [res |-> res, sock |-> sock, job |-> [job EXCEPT !.pc = "read"]]
    ELSE [res |-> res, sock |-> WriteHead(res, sock),
          job |-> [job EXCEPT !.pc = "chunk"]]

\* sendFile after getInfoAsync answered info
SendFileInfo(res, sock, job, info) ==
    IF ~info.exists
    THEN Finished(send(status(res, 404), sock, Str(Txt(<<"File not found">>))), job)
    ELSE SendFileSized(WithSize(setHeader(res, "Content-Type", getMimeType(job.path)),
                                info.size),
                       sock, job, info.size)

\* sendFile after the whole file was read: res.send(buffer)
SendFileRead(res, sock, job, content) ==
    Finished(send(res, sock, Buf(FromBase64(content))), job)

\* sendFile's catch after an await rejected: res.status(500).send(...)
SendFileFailed(res, sock, job) ==
    Finished(send(status(res, 500), sock, Str(Txt(<<"Error sending file">>))),
             [job EXCEPT !.failed = TRUE])

\* Math.min(a, b)
Min(a, b) == IF a < b THEN a ELSE b

\* sendFile after `length` bytes were read at job.position: they are written;
\* the loop ends the socket when the file is through, or reads the next chunk
SendFileChunk(res, sock, job, size, length, content) ==
    IF job.position + length < size
    THEN [res |-> res, sock |-> SocketWrite(sock, Raw(FromBase64(content))),
          job |-> [job EXCEPT !.position = @ + length]]
    ELSE [res |-> res,
          sock |-> SocketEnd(SocketWrite(sock, Raw(FromBase64(content)))),
          job |-> [job EXCEPT !.position = @ + length, !.pc = "done"]]

----------------------------------------------------------------------------
(* Routes and handlers                                                     *)

\* The route table after registration: httpServer.post(path, handler)
Routes ==
    << [method |-> Txt(<<"GET">>), path |-> Txt(<<"/">>), handler |-> "root"],
       [method |-> Txt(<<"GET">>), path |-> Txt(<<"/", "*">>), handler |-> "static"],
       [method |-> Txt(<<"POST">>), path |-> Txt(<<"/", "upload">>), handler |-> "upload"],
       [method |-> Txt(<<"POST">>), path |-> Txt(<<"/", "echo">>), handler |-> "echo"],
       [method |-> Txt(<<"POST">>), path |-> Txt(<<"/", "throw">>), handler |-> "throw"],
       [method |-> Txt(<<"GET">>), path |-> Txt(<<"/", "songs", "/", ":id">>),
        handler |-> "song"] >>

RECURSIVE FindRoute(_, _)
FindRoute(req, i) ==
    IF i > Len(Routes) THEN << >>
    ELSE IF /\ Routes[i].method = req.method
            /\ \/ Routes[i].path = req.url
               \/ Routes[i].path = StrSplit(req.url, Txt(<<"?">>))[1]
         THEN <<Routes[i]>>
    ELSE FindRoute(req, i + 1)

\* << >> for null, <<route>> otherwise
matchRoute(req) == FindRoute(req, 1)

\* POST /upload of the application: 400 without files, 200 with files
HandlerUpload(req, res, sock) ==
    IF req.files = << >>
    THEN send(status(res, 400), sock, Str(Txt(<<"No files were uploaded.">>)))
    ELSE send(status(res, 200), sock, Str(Txt(<<"Files uploaded successfully">>)))

\* GET / of the application: the page index.html of the device, as text/html
HandlerRoot(req, res, sock) ==
    send(setHeader(res, "Content-Type", Txt(<<"text/html">>)), sock,
         Str(Txt(<<"<html>">>)))

\* GET /* of the application, for a file that is neither in the document
\* directory nor among the assets
HandlerStatic(req, res, sock) ==
    send(status(res, 404), sock, Str(Txt(<<"Not Found">>)))

\* A handler that answers with the request's body: res.send(req.body)
HandlerEcho(req, res, sock) == send(res, sock, Buf(req.body))

\* A handler that throws before it has called any method of the response
HandlerThrow(req, res, sock) == [res |-> res, sock |-> sock]

\* A handler of a route with a path parameter: it answers with the parameter
HandlerSong(req, res, sock) ==
    send(res, sock, Str(IF "id" \in DOMAIN req.params THEN req.params["id"] ELSE << >>))

\* What a handler left behind, and whether it threw
Outcome(r, thrown) == [res |-> r.res, sock |-> r.sock, thrown |-> thrown]

\* route.handler(req, res)
RunHandler(name, req, res, sock) ==
    CASE name = "root" -> Outcome(HandlerRoot(req, res, sock), FALSE)
      [] name = "static" -> Outcome(HandlerStatic(req, res, sock), FALSE)
      [] name = "upload" -> Outcome(HandlerUpload(req, res, sock), FALSE)
      [] name = "echo" -> Outcome(HandlerEcho(req, res, sock), FALSE)
      [] name = "throw" -> Outcome(HandlerThrow(req, res, sock), TRUE)
      [] name = "song" -> Outcome(HandlerSong(req, res, sock), FALSE)

\* A dispatch without its catch: what the handler threw leaves the dispatch
CatchNothing(r) == r

\* try { route.handler(req, res) } catch (error) { res.status(500).send(...) }
Catch(r) ==
    IF r.thrown
    THEN Outcome(send(status(r.res, 500), r.sock,
                      Str(Txt(<<"Internal Server Error">>))), FALSE)
    ELSE r

\* The connection after the handler of the route ran in the try: what it and
\* the catch wrote, and whether an exception left the dispatch
Handled(c, req, route, r) ==
    [c EXCEPT !.sock = r.sock,
              !.escaped = @ \/ r.thrown,
              !.calls = Append(@, [handler |-> route.handler, req |-> req,
                                   writes |-> Len(c.sock.wire),
                                   afterEnd |-> c.sock.ended])]

\* The dispatch of listen for the matched route: call its handler, 404 without a
\* route.  c.calls records each handler invocation: the request as the handler
\* sees it, the number of socket writes before it, whether the socket was ended.
DispatchTo(c, req, route) ==
    IF route # << >>
    THEN Handled(c, req, route[1],
                 Catch(RunHandler(route[1].handler, req, createResponse, c.sock)))
    ELSE [c EXCEPT
             !.sock = send(status(createResponse, 404), c.sock,
                           Str(Txt(<<"Not Found">>))).sock]

Dispatch(c, req) == DispatchTo(c, req, matchRoute(req))

----------------------------------------------------------------------------
(* The streaming multipart parser: streamMultipartFormData                 *)

\* The index of the first run at or after a whose unit is ch, 0 when there is none
FirstOrZero(S) == IF S = {} THEN 0 ELSE MinOf(S)

NextUnit(s, a, ch) == FirstOrZero({i \in a..Len(s) : s[i][1] = ch})

\* s.match(/<prefix>([^"]+)"/) for a prefix that ends with the opening quote:
\* << >> for null, <<group 1>> otherwise.  The group starts at run a; q is the
\* index of the next quote.
RECURSIVE QuotedFrom(_, _, _)
QuotedAt(s, prefix, k, a, q) ==
    IF MatchAt(s, k, prefix) /\ q > a THEN <<SubSeq(s, a, q - 1)>>
    ELSE QuotedFrom(s, prefix, k + 1)

QuotedFrom(s, prefix, k) ==
    IF k > Len(s) THEN << >>
    ELSE QuotedAt(s, prefix, k, k + Len(prefix),
                  NextUnit(s, k + Len(prefix), "\""))

FilenameMatch(contentDisposition) ==
    QuotedFrom(contentDisposition, Txt(<<"file", "name=\"">>), 1)

NameMatch(contentDisposition) ==
    QuotedFrom(contentDisposition, Txt(<<"name=\"">>), 1)

\* s.match(/boundary=(?:"([^"]+)"|([^;]+))/i): << >> for null, otherwise
\* <<group 1 || group 2>>.  The value starts at run a; q is the index of the
\* next quote after a, e the index of the next ';' or the end.
RECURSIVE BoundaryFrom(_, _)
BoundaryAt(s, k, a, q, e) ==
    IF a <= Len(s) /\ s[a][1] = "\"" /\ q > a + 1
    THEN <<SubSeq(s, a + 1, q - 1)>>
    ELSE IF e > a THEN <<SubSeq(s, a, e - 1)>>
    ELSE BoundaryFrom(s, k + 1)

\* The index of the first run at or after a whose unit is ch, past the end when
\* there is none
NextOrEnd(s, a, ch) == MinOf({i \in a..Len(s) : s[i][1] = ch} \cup {Len(s) + 1})

BoundaryFrom(s, k) ==
    IF k > Len(s) THEN << >>
    ELSE IF ~MatchAt(ToLowerCase(s), k, Txt(<<"boundary=">>))
         THEN BoundaryFrom(s, k + 1)
    ELSE BoundaryAt(s, k, k + 1, NextUnit(s, k + 2, "\""), NextOrEnd(s, k + 1, ";"))

BoundaryMatch(contentType) == BoundaryFrom(contentType, 1)

\* The content-state buffer length above which a part's data is flushed
CHUNK_THRESHOLD == 1024 * 1024

\* Bytes kept in the buffer by a flush
SAFE_TAIL == 200

\* headers after one line of a part's headers, colonIndex the offset of its ':'
PartHeader(headers, line, colonIndex) ==
    IF colonIndex # -1
    THEN SetKey(headers, ToLowerCase(Trim(Take(line, colonIndex))),
                Trim(Drop(line, colonIndex + 1)))
    ELSE headers

\* The headers of one part: headerText.split('\r\n').forEach(...)
RECURSIVE PartHeaders(_, _, _)
PartHeaders(lines, i, headers) ==
    IF i > Len(lines) THEN headers
    ELSE PartHeaders(lines, i + 1,
                     PartHeader(headers, lines[i], IndexOf(lines[i], Txt(<<":">>), 0)))

\* The first of the forms that occurs in buffer: its offset and the form,
\* [index |-> -1] when none occurs.  index is the offset of form i.
RECURSIVE FirstForm(_, _, _)
FormAt(buffer, forms, i, index) ==
    IF index # -1 THEN [index |-> index, matched |-> forms[i]]
    ELSE FirstForm(buffer, forms, i + 1)

FirstForm(buffer, forms, i) ==
    IF i > Len(forms) THEN [index |-> -1, matched |-> << >>]
    ELSE FormAt(buffer, forms, i, IndexOf(buffer, forms[i], 0))

possibleBoundaries(boundary) ==
    << Txt(<<"\r", "\n", "-", "-">>) \o boundary,
       Txt(<<"\n", "-", "-">>) \o boundary,
       Txt(<<"-", "-">>) \o boundary,
       Txt(<<"\r", "\n">>) \o boundary,
       Txt(<<"\n">>) \o boundary >>

possibleEndBoundaries(boundary) ==
    [i \in 1..5 |-> possibleBoundaries(boundary)[i] \o Txt(<<"-", "-">>)]

\* Buffer.concat(list)
RECURSIVE ConcatAll(_, _)
ConcatAll(list, i) ==
    IF i > Len(list) THEN << >> ELSE Cat(list[i], ConcatAll(list, i + 1))

\* The parser state of one streamMultipartFormData call
NewParser(boundary) ==
    [boundary |-> boundary, files |-> << >>, currentFile |-> << >>,
     buffer |-> << >>, state |-> "boundary", headerText |-> << >>]

\* currentFile.data.push(content); currentFile.size += content.length
PushData(cf, content) ==
    [cf EXCEPT !.data = Append(@, content), !.size = @ + BLen(content)]

\* files.push({name, type, size, data: Buffer.concat(currentFile.data)})
FileOf(cf) ==
    [name |-> cf.name, type |-> cf.type, size |-> cf.size,
     data |-> ConcatAll(cf.data, 1)]

\* One pass of the state 'boundary', boundaryIndex the offset of the boundary
BoundaryFound(p, boundaryIndex) ==
    IF boundaryIndex # -1
    THEN [p |-> [p EXCEPT !.buffer = Drop(@, boundaryIndex + BLen(p.boundary)),
                          !.state = "headers", !.headerText = << >>],
          out |-> "progress"]
    ELSE [p |-> p, out |-> "wait"]

StepBoundary(p) == BoundaryFound(p, IndexOf(p.buffer, p.boundary, 0))

\* obj[key] || '' for a string-valued map
ValueOf(v) == IF v = << >> THEN << >> ELSE v[1]

\* A headers state that takes every part with a name for a file part
HeadersMatchedAny(p, headers, filenameMatch, nameMatch) ==
    IF nameMatch = << >>
    THEN [p |-> p, out |-> "throw"]
    ELSE [p |-> [p EXCEPT
                    !.currentFile =
                        <<[headers |-> headers,
                           name |-> nameMatch[1],
                           type |-> ValueOf(GetKey(headers, Txt(<<"content-type">>))),
                           data |-> << >>, size |-> 0]>>,
                    !.state = "content"],
          out |-> "progress"]

\* The end of the state 'headers'.  The log calls that follow the two matches
\* read filenameMatch[1] and nameMatch[1]: with either match null they throw,
\* after headerText and buffer were updated and before state changes.
HeadersMatched(p, headers, filenameMatch, nameMatch) ==
    IF filenameMatch = << >> \/ nameMatch = << >>
    THEN [p |-> p, out |-> "throw"]
    ELSE [p |-> [p EXCEPT
                    !.currentFile =
                        <<[headers |-> headers,
                           name |-> filenameMatch[1],
                           type |-> ValueOf(GetKey(headers, Txt(<<"content-type">>))),
                           data |-> << >>, size |-> 0]>>,
                    !.state = "content"],
          out |-> "progress"]

\* The state 'headers' once the part's headers are parsed
HeadersParsed(p, headers, contentDisposition) ==
    HeadersMatched(p, headers, FilenameMatch(contentDisposition),
                   NameMatch(contentDisposition))

\* The state 'headers' once the header text is complete
HeadersText(p, headers) ==
    HeadersParsed(p, headers,
                  ValueOf(GetKey(headers, Txt(<<"content-disposition">>))))

\* The state 'headers', headersEndIndex the offset of the blank line
HeadersEnd(p, headersEndIndex, headerText) ==
    IF headersEndIndex = -1 THEN [p |-> p, out |-> "wait"]
    ELSE HeadersText([p EXCEPT !.headerText = headerText,
                               !.buffer = Drop(@, headersEndIndex + 4)],
                     PartHeaders(StrSplit(headerText, CRLF), 1, << >>))

HeadersAt(p, headersEndIndex) ==
    HeadersEnd(p, headersEndIndex, Cat(p.headerText, Take(p.buffer, headersEndIndex)))

\* One pass of the state 'headers'
StepHeaders(p) == HeadersAt(p, IndexOf(p.buffer, CRLF2, 0))

\* p after the part that was open, if any, was closed as the file cf
PartEnd(p, cf) ==
    [p EXCEPT !.currentFile = <<cf>>, !.files = Append(@, FileOf(cf))]

\* p after the part that was open, if any, ended at offset endIndex
ContentEnd(p, endIndex) ==
    IF p.currentFile = << >> THEN p
    ELSE PartEnd(p, PushData(p.currentFile[1], Take(p.buffer, endIndex)))

\* A boundary was found: the end boundary e wins over the boundary b
ContentBoundary(p, b, e) ==
    IF e.index # -1
    THEN [p |-> ContentEnd(p, e.index), out |-> "done"]
    ELSE [p |-> [ContentEnd(p, b.index) EXCEPT
                    !.buffer = Drop(@, b.index + BLen(b.matched)),
                    !.state = "headers", !.headerText = << >>],
          out |-> "progress"]

\* No boundary in a buffer above the threshold: all but the last SAFE_TAIL bytes
\* go to the open part
ContentFlush(p, safeLength) ==
    IF p.currentFile # << >>
    THEN [p |-> [p EXCEPT
                    !.currentFile = <<PushData(@[1], Take(p.buffer, safeLength))>>,
                    !.buffer = Drop(@, safeLength)],
          out |-> "progress"]
    ELSE [p |-> [p EXCEPT !.buffer = << >>], out |-> "progress"]

\* Math.max(0, n)
Max0(n) == IF n > 0 THEN n ELSE 0

\* The state 'content' given the first boundary b and the first end boundary e
ContentFound(p, b, e) ==
    IF b.index # -1 \/ e.index # -1 THEN ContentBoundary(p, b, e)
    ELSE IF BLen(p.buffer) > CHUNK_THRESHOLD
         THEN ContentFlush(p, Max0(BLen(p.buffer) - SAFE_TAIL))
    ELSE [p |-> p, out |-> "wait"]

\* One pass of the state 'content'
StepContent(p) ==
    ContentFound(p, FirstForm(p.buffer, possibleBoundaries(p.boundary), 1),
                 FirstForm(p.buffer, possibleEndBoundaries(p.boundary), 1))

\* One pass of the loop of processChunk
Step(p) ==
    CASE p.state = "boundary" -> StepBoundary(p)
      [] p.state = "headers" -> StepHeaders(p)
      [] p.state = "content" -> StepContent(p)

\* The loop of processChunk: passes until one makes no progress, completes
\* ("done": the end boundary was found) or throws
RECURSIVE ProcessLoop(_)
AfterStep(r) == IF r.out = "progress" THEN ProcessLoop(r.p) ELSE r

ProcessLoop(p) == AfterStep(Step(p))

processChunk(p, chunk) == ProcessLoop([p EXCEPT !.buffer = Cat(@, chunk)])

----------------------------------------------------------------------------
(* One accepted connection: the listeners that listen attaches             *)

\* The closure state of a connection handed to TcpSocket.createServer's callback.
\* req and mp are << >> for null; mp is the state of the multipart parser whose
\* 'data' and 'end' listeners are attached; aliased: req.files is the parser's
\* files array (after req.files = files).
NewConnection ==
    [buffer |-> << >>, req |-> << >>, mp |-> << >>, aliased |-> FALSE,
     sock |-> NewSocket, calls |-> << >>, escaped |-> FALSE]

IsMultipart(req) ==
    /\ Txt(<<"content-type">>) \in DOMAIN req.headers
    /\ Includes(req.headers[Txt(<<"content-type">>)], Txt(<<"multipart/form-data">>))

\* streamMultipartFormData once the boundary was looked for
StreamWith(c, req, boundaryMatch) ==
    IF boundaryMatch = << >>
    THEN Dispatch(c, req)
    ELSE [c EXCEPT !.mp = <<NewParser(boundaryMatch[1])>>]

\* streamMultipartFormData(req, socket, callback) with the callback of listen:
\* without a boundary the callback runs at once, otherwise the parser starts
\* empty and its listeners are attached
streamMultipartFormData(c, req) ==
    IF ~IsMultipart(req) THEN Dispatch(c, req)
    ELSE StreamWith(c, req, BoundaryMatch(req.headers[Txt(<<"content-type">>)]))

\* callback(req) for the request of the connection
Callback(c) == Dispatch(c, c.req[1])

\* req.files = files; callback(req)
Complete(c) ==
    Callback([c EXCEPT !.req = <<[@[1] EXCEPT !.files = c.mp[1].files]>>,
                       !.aliased = TRUE])

\* The 'data' listener of listen once the buffer holds a blank line and no
\* request was parsed before: req is what parseBufferRequest gave
ListenParsed(c, buffer, req) ==
    IF req = << >>
    THEN [c EXCEPT !.buffer = buffer,
                   !.sock = SocketEnd(SocketWrite(@,
                       ResponseHead(400, "Bad Request", << >>, << >>)))]
    ELSE IF IsMultipart(req[1])
         THEN streamMultipartFormData([c EXCEPT !.buffer = << >>, !.req = req],
                                      req[1])
    ELSE Dispatch([c EXCEPT !.buffer = << >>, !.req = << >>], req[1])

\* The 'data' listener of listen once the chunk is appended
ListenBuffered(c, buffer) ==
    IF c.req = << >> /\ Includes(buffer, CRLF2)
    THEN ListenParsed(c, buffer, parseBufferRequest(buffer))
    ELSE [c EXCEPT !.buffer = buffer]

\* The 'data' listener of listen
ListenData(c, chunk) ==
    IF BLen(c.buffer) + BLen(chunk) > MAX_BUFFER_SIZE
    THEN [c EXCEPT !.sock = SocketEnd(SocketWrite(@,
                       ResponseHead(413, "Payload Too Large", << >>, << >>)))]
    ELSE ListenBuffered(c, appendToBuffer(c.buffer, chunk))

\* After processChunk: the catch of the listener, or the end boundary, completes
\* the request with the files so far
Processed(c, out) == IF out \in {"done", "throw"} THEN Complete(c) ELSE c

\* The connection with the parser state p
WithParser(c, p) ==
    [c EXCEPT !.mp = <<p>>,
              !.req = IF c.aliased THEN <<[@[1] EXCEPT !.files = p.files]>> ELSE @]

ParserResult(c, r) == Processed(WithParser(c, r.p), r.out)

\* The 'data' listener of streamMultipartFormData: processChunk in a try
MultipartData(c, chunk) == ParserResult(c, processChunk(c.mp[1], chunk))

\* A 'data' event: the listeners run in the order they were attached; a listener
\* attached while the event is emitted does not see this event
OnData(c, chunk) ==
    IF c.mp # << >> THEN MultipartData(ListenData(c, chunk), chunk)
    ELSE ListenData(c, chunk)

\* An 'end' event: the 'end' listener of streamMultipartFormData, if attached
OnEnd(c) == IF c.mp # << >> THEN Complete(c) ELSE c

\* A 'timeout' event
OnTimeout(c) == [c EXCEPT !.sock = SocketEnd(@)]

----------------------------------------------------------------------------
(* The client: the byte streams it may send                                *)

MaxChunk == 2
MaxTimeouts == 1

Boundary == Txt(<<"b", "d">>)

RequestLine(method, path) ==
    Txt(<<method, " ">>) \o path \o Txt(<<" ", "HTTP/1.1", "\r", "\n">>)

\* A request with a Content-Length header and no Content-Type
PlainRequest(method, path, body) ==
    RequestLine(method, path)
    \o Txt(<<"Content-Length", ":", " ">>) \o Digits(BLen(body)) \o CRLF2 \o body

ContentDisposition(isFile) ==
    Txt(<<"Content-Disposition", ":", " ", "form-data", ";", " ", "name=\"", "f", "\"">>)
    \o (IF isFile THEN Txt(<<";", " ", "file", "name=\"", "a", "\"">>) ELSE << >>)

Part(isFile, data) ==
    Txt(<<"-", "-">>) \o Boundary \o CRLF \o ContentDisposition(isFile) \o CRLF2
    \o data \o CRLF

\* A part whose Content-Disposition has a filename and no name parameter
NamelessPart(data) ==
    Txt(<<"-", "-">>) \o Boundary \o CRLF
    \o Txt(<<"Content-Disposition", ":", " ", "form-data", ";", " ", "file", "name=\"",
             "c", "\"">>)
    \o CRLF2 \o data \o CRLF

\* The request line and headers of a multipart/form-data upload
UploadHead(path) ==
    RequestLine("POST", path)
    \o Txt(<<"Content-Type", ":", " ", "multipart/form-data", ";", " ", "boundary=">>)
    \o Boundary \o CRLF2

\* A multipart/form-data upload: the parts, then the terminal boundary
UploadTo(path, parts) ==
    UploadHead(path) \o parts \o Txt(<<"-", "-">>) \o Boundary
    \o Txt(<<"-", "-", "\r", "\n">>)

\* An upload that breaks off after its first part and the delimiter of the next
Truncated ==
    UploadHead(Txt(<<"/", "upload">>)) \o Part(TRUE, Txt(<<"x", "y">>))
    \o Txt(<<"-", "-">>) \o Boundary \o CRLF

Upload(parts) == UploadTo(Txt(<<"/", "upload">>), parts)

\* Half of a payload that is larger than MAX_BUFFER_SIZE
HalfOversize == 26 * 1024 * 1024

\* A request whose body alone has the length at which findInBuffer changes its
\* search
LargeRequest == PlainRequest("POST", Txt(<<"/", "echo">>), Bulk(LARGE_BUFFER))

Streams ==
    { PlainRequest("POST", Txt(<<"/", "echo">>), Txt(<<"h", "e", "l", "l", "o">>)),
      LargeRequest,
      PlainRequest("POST", Txt(<<"/", "echo">>), Txt(<<"h", "\r", "\n", "\r", "\n">>)),
      PlainRequest("GET", Txt(<<"/", "nope">>), << >>),
      PlainRequest("GET", Txt(<<"/", "nope", "?", "x", "=", "1">>), << >>),
      UploadTo(Txt(<<"/", "nope">>), Part(TRUE, Txt(<<"x", "y">>))),
      Truncated,
      Upload(NamelessPart(Txt(<<"x", "y">>))),
      PlainRequest("GET", Txt(<<"/">>), << >>),
      PlainRequest("POST", Txt(<<"/", "throw">>), << >>),
      PlainRequest("GET", Txt(<<"/", "songs", "/", "7">>), << >>),
      Txt(<<"GET">>) \o CRLF2,
      Upload(Part(TRUE, Txt(<<"x", "y">>))),
      Upload(Part(TRUE, Txt(<<"x", "y">>)) \o Part(TRUE, Txt(<<"y">>))),
      Upload(Part(FALSE, Txt(<<"h">>)) \o Part(TRUE, Txt(<<"x">>))),
      Upload(Part(TRUE, Txt(<<"x">>)) \o Part(FALSE, Txt(<<"h">>))),
      Upload(Part(TRUE, Bulk(HalfOversize) \o Txt(<<"x">>) \o Bulk(HalfOversize))) }

----------------------------------------------------------------------------
\* No handler answers in several steps
NoTask == [res |-> createResponse, program |-> << >>, ops |-> << >>, jobs |-> << >>]

\* No second connection
\* No tag-reading call is under way
NoReader == [pc |-> "none"]

\* No parser of the second server class is at work
NoParser == [state |-> "none"]

NoPeer ==
    [conn |-> NewConnection, upstream |-> << >>, inflight |-> << >>,
     clientEnd |-> FALSE]

Init ==
    /\ conn = NewConnection
    /\ task = NoTask
    /\ peer = NoPeer
    /\ reader = NoReader
    /\ parser = NoParser
    /\ upstream \in Streams
    /\ inflight = upstream
    /\ clientEnd = FALSE
    /\ timeouts = 0

\* The socket delivers the next n runs of the stream, or all that is left of it
Data ==
    /\ inflight # << >>
    /\ ~clientEnd
    /\ \E n \in (1..MaxChunk) \cup {Len(inflight)} :
          /\ n <= Len(inflight)
          /\ conn' = OnData(conn, Norm(SubSeq(inflight, 1, n)))
          /\ inflight' = SubSeq(inflight, n + 1, Len(inflight))
    /\ UNCHANGED <<upstream, clientEnd, timeouts, task, peer, reader, parser>>

\* The client closes its side, having sent the whole stream or not
End ==
    /\ ~clientEnd
    /\ clientEnd' = TRUE
    /\ conn' = OnEnd(conn)
    /\ UNCHANGED <<upstream, inflight, timeouts, task, peer, reader, parser>>

\* The socket was idle for 30 s
Timeout ==
    /\ timeouts < MaxTimeouts
    /\ timeouts' = timeouts + 1
    /\ conn' = OnTimeout(conn)
    /\ UNCHANGED <<upstream, inflight, clientEnd, task, peer, reader, parser>>

Next == Data \/ End \/ Timeout

Spec == Init /\ [][Next]_vars

----------------------------------------------------------------------------
(* A handler's calls of the terminal methods of its response               *)

\* The terminal calls a handler may make.  A task is the response object of one
\* request, the calls its handler makes (program), those it has not made yet (ops)
\* and its sendFile calls that were started (jobs).
OpSend == [kind |-> "send", path |-> << >>]
OpJson == [kind |-> "json", path |-> << >>]
OpStream == [kind |-> "stream", path |-> << >>]
OpSendFile(name) == [kind |-> "sendFile", path |-> Path(name)]
\* stream for a readable that emits events, is a promise, or is neither
OpStreamEvents == [kind |-> "streamEvents", path |-> << >>]
OpStreamPromise == [kind |-> "streamPromise", path |-> << >>]
OpStreamOther == [kind |-> "streamOther", path |-> << >>]

Ops ==
    {OpSend, OpJson, OpStream, OpStreamEvents, OpStreamPromise, OpStreamOther}
    \cup {OpSendFile(name) : name \in {"gone", "empty", "tiny", "under", "exact", "large"}}

\* The number of terminal calls a handler makes on one response
MaxCalls == 2

\* The calls a handler may make after its first: those that write at most once
LaterOps == {OpSend, OpJson, OpStream, OpSendFile("tiny")}

\* What a handler may do: a first call, then up to MaxCalls - 1 more
Programs ==
    {ops \in UNION {[1..n -> Ops] : n \in 1..MaxCalls} :
        \A i \in 2..Len(ops) : ops[i] \in LaterOps}

InitRes ==
    /\ conn = NewConnection
    /\ peer = NoPeer
    /\ reader = NoReader
    /\ parser = NoParser
    /\ upstream = << >>
    /\ inflight = << >>
    /\ clientEnd = FALSE
    /\ timeouts = 0
    /\ task \in {[res |-> createResponse, program |-> ops, ops |-> ops,
                   jobs |-> << >>] : ops \in Programs}

\* The options a handler gives to stream
StreamOptions == [contentType |-> <<Txt(<<"audio/mpeg">>)>>, contentLength |-> <<2>>]

\* The response and the socket after the terminal call op that does not wait;
\* the handler catches what stream throws for an unsupported readable
CallNow(res, sock, op) ==
    CASE op.kind = "send" -> send(res, sock, Str(Txt(<<"o", "k">>)))
      [] op.kind = "json" -> json(res, sock, Buf(Txt(<<"o", "k">>)))
      [] op.kind = "stream" ->
             stream(res, sock, Buf(Txt(<<"o", "k">>)), StreamOptions)
      [] op.kind = "streamOther" -> StreamUnsupported(res, sock, StreamOptions)

\* The number of 'data' events a readable emits at most
MaxEmits == 2

\* A stream call whose readable has not finished: pc says what the readable is
NewSource(kind) ==
    [path |-> << >>, pc |-> IF kind = "streamEvents" THEN "events" ELSE "promise",
     position |-> 0, failed |-> FALSE]

\* The task and the connection after a call that returns with a job outstanding
AfterStart(r, job) ==
    /\ task' = [task EXCEPT !.res = r.res, !.ops = Tail(@), !.jobs = Append(@, job)]
    /\ conn' = [conn EXCEPT !.sock = r.sock]

\* The task and the connection after r, the outcome of a step of job i
AfterJob(i, r) ==
    /\ task' = [task EXCEPT !.res = r.res, !.jobs[i] = r.job]
    /\ conn' = [conn EXCEPT !.sock = r.sock]

\* The task and the connection after r, the outcome of a call that does not wait
AfterCall(r) ==
    /\ task' = [task EXCEPT !.res = r.res, !.ops = Tail(@)]
    /\ conn' = [conn EXCEPT !.sock = r.sock]

\* The handler makes its next terminal call: sendFile runs to its first await
Call ==
    /\ task.ops # << >>
    /\ CASE task.ops[1].kind = "sendFile" ->
               AfterStart([res |-> task.res, sock |-> conn.sock],
                          NewJob(task.ops[1].path))
         [] task.ops[1].kind \in {"streamEvents", "streamPromise"} ->
               AfterStart(StreamHead(task.res, conn.sock, StreamOptions),
                          NewSource(task.ops[1].kind))
         [] OTHER -> AfterCall(CallNow(task.res, conn.sock, task.ops[1]))
    /\ UNCHANGED <<upstream, inflight, clientEnd, timeouts, peer, reader, parser>>

\* getInfoAsync resolves for a sendFile call
FileInfo ==
    /\ \E i \in DOMAIN task.jobs :
          /\ task.jobs[i].pc = "info"
          /\ \/ AfterJob(i, SendFileInfo(task.res, conn.sock, task.jobs[i],
                                         getInfoAsync(task.jobs[i].path)))
             \/ AfterJob(i, SendFileFailed(task.res, conn.sock, task.jobs[i]))
    /\ UNCHANGED <<upstream, inflight, clientEnd, timeouts, peer, reader, parser>>

\* readAsStringAsync of the whole file resolves for a sendFile call
FileRead ==
    /\ \E i \in DOMAIN task.jobs :
          /\ task.jobs[i].pc = "read"
          /\ \/ AfterJob(i, SendFileRead(task.res, conn.sock, task.jobs[i],
                             readAsStringAsync(task.jobs[i].path, 0,
                                               getInfoAsync(task.jobs[i].path).size)))
             \/ AfterJob(i, SendFileFailed(task.res, conn.sock, task.jobs[i]))
    /\ UNCHANGED <<upstream, inflight, clientEnd, timeouts, peer, reader, parser>>

\* The length of the chunk that sendFile reads at job.position
ChunkLength(job) ==
    Min(CHUNK_SIZE, getInfoAsync(job.path).size - job.position)

\* readAsStringAsync of one chunk resolves for a sendFile call
FileChunk ==
    /\ \E i \in DOMAIN task.jobs :
          /\ task.jobs[i].pc = "chunk"
          /\ \/ AfterJob(i, SendFileChunk(task.res, conn.sock, task.jobs[i],
                             getInfoAsync(task.jobs[i].path).size,
                             ChunkLength(task.jobs[i]),
                             readAsStringAsync(task.jobs[i].path, task.jobs[i].position,
                                               ChunkLength(task.jobs[i]))))
             \/ AfterJob(i, SendFileFailed(task.res, conn.sock, task.jobs[i]))
    /\ UNCHANGED <<upstream, inflight, clientEnd, timeouts, peer, reader, parser>>

\* The socket after a step of the readable of job i
AfterSource(i, sock, job) ==
    /\ task' = [task EXCEPT !.jobs[i] = job]
    /\ conn' = [conn EXCEPT !.sock = sock]

\* The promise given to stream resolves with data, or rejects
SourcePromise ==
    /\ \E i \in DOMAIN task.jobs :
          /\ task.jobs[i].pc = "promise"
          /\ \/ AfterSource(i, StreamResolved(conn.sock, Txt(<<"o", "k">>)),
                            [task.jobs[i] EXCEPT !.pc = "done"])
             \/ AfterSource(i, StreamEnd(conn.sock),
                            [task.jobs[i] EXCEPT !.pc = "done", !.failed = TRUE])
    /\ UNCHANGED <<upstream, inflight, clientEnd, timeouts, peer, reader, parser>>

\* The readable given to stream emits 'data'
SourceData ==
    /\ \E i \in DOMAIN task.jobs :
          /\ task.jobs[i].pc = "events"
          /\ task.jobs[i].position < MaxEmits
          /\ AfterSource(i, StreamData(conn.sock, Txt(<<"o">>)),
                         [task.jobs[i] EXCEPT !.position = @ + 1])
    /\ UNCHANGED <<upstream, inflight, clientEnd, timeouts, peer, reader, parser>>

\* The readable given to stream emits 'end', or 'error'
SourceClose ==
    /\ \E i \in DOMAIN task.jobs :
          /\ task.jobs[i].pc = "events"
          /\ \E failed \in BOOLEAN :
                AfterSource(i, StreamEnd(conn.sock),
                            [task.jobs[i] EXCEPT !.pc = "done", !.failed = failed])
    /\ UNCHANGED <<upstream, inflight, clientEnd, timeouts, peer, reader, parser>>

NextRes ==
    \/ Call \/ FileInfo \/ FileRead \/ FileChunk
    \/ SourcePromise \/ SourceData \/ SourceClose

SpecRes == InitRes /\ [][NextRes]_vars

----------------------------------------------------------------------------
(* Two connections at once.  The connection callback of listen runs once   *)
(* per accepted socket: its variables and the parser's are those of that   *)
(* socket's listeners only.                                                *)

\* Socket k of the open connections cs emits 'data': the listeners attached to
\* socket k run, on the variables of the callback that attached them
EmitDataAll(cs, k, chunk) == [j \in DOMAIN cs |-> OnData(cs[j], chunk)]

EmitData(cs, k, chunk) == [cs EXCEPT ![k] = OnData(@, chunk)]

\* Socket k emits 'end'
EmitEnd(cs, k) == [cs EXCEPT ![k] = OnEnd(@)]

\* The number of runs of a chunk when two connections are served
Piece == 12

\* What the two clients send
StreamsOne ==
    { PlainRequest("POST", Txt(<<"/", "echo">>), Txt(<<"h", "e", "l", "l", "o">>)),
      Upload(Part(TRUE, Txt(<<"x", "y">>))) }

StreamsPeer ==
    { PlainRequest("GET", Txt(<<"/", "nope">>), << >>),
      Upload(Part(TRUE, Txt(<<"x", "y">>)) \o Part(TRUE, Txt(<<"y">>))) }

InitTwo ==
    /\ conn = NewConnection
    /\ task = NoTask
    /\ upstream \in StreamsOne
    /\ inflight = upstream
    /\ clientEnd = FALSE
    /\ timeouts = 0
    /\ peer \in {[conn |-> NewConnection, upstream |-> s, inflight |-> s,
                  clientEnd |-> FALSE] : s \in StreamsPeer}
    /\ reader = NoReader
    /\ parser = NoParser

\* The two connections
Both == <<conn, peer.conn>>

\* The connections are cs after an event of the first one
AfterFirst(cs) ==
    /\ conn' = cs[1]
    /\ peer' = [peer EXCEPT !.conn = cs[2]]

\* The connections are cs after a 'data' event of the second one, which
\* delivered n runs, and after its 'end' event
AfterPeerData(cs, n) ==
    /\ conn' = cs[1]
    /\ peer' = [peer EXCEPT !.conn = cs[2],
                            !.inflight = SubSeq(@, n + 1, Len(@))]

AfterPeerEnd(cs) ==
    /\ conn' = cs[1]
    /\ peer' = [peer EXCEPT !.conn = cs[2], !.clientEnd = TRUE]

\* The sizes of the chunk that may come next of what is in flight
Pieces(b) == {n \in {Piece, Len(b)} : n <= Len(b)}

DataOne ==
    /\ inflight # << >>
    /\ ~clientEnd
    /\ \E n \in Pieces(inflight) :
          /\ AfterFirst(EmitData(Both, 1, Norm(SubSeq(inflight, 1, n))))
          /\ inflight' = SubSeq(inflight, n + 1, Len(inflight))
    /\ UNCHANGED <<upstream, clientEnd, timeouts, task, reader, parser>>

EndOne ==
    /\ ~clientEnd
    /\ clientEnd' = TRUE
    /\ AfterFirst(EmitEnd(Both, 1))
    /\ UNCHANGED <<upstream, inflight, timeouts, task, reader, parser>>

DataPeer ==
    /\ peer.inflight # << >>
    /\ ~peer.clientEnd
    /\ \E n \in Pieces(peer.inflight) :
          AfterPeerData(EmitData(Both, 2, Norm(SubSeq(peer.inflight, 1, n))), n)
    /\ UNCHANGED <<upstream, inflight, clientEnd, timeouts, task, reader, parser>>

EndPeer ==
    /\ ~peer.clientEnd
    /\ AfterPeerEnd(EmitEnd(Both, 2))
    /\ UNCHANGED <<upstream, inflight, clientEnd, timeouts, task, reader, parser>>

NextTwo == DataOne \/ EndOne \/ DataPeer \/ EndPeer

SpecTwo == InitTwo /\ [][NextTwo]_vars

----------------------------------------------------------------------------
(* What the properties below speak of                                      *)

\* The socket writes that carry a status line
Heads(sock) == {i \in DOMAIN sock.wire : sock.wire[i].head}

\* The value of a decimal digit
DigitValue(u) ==
    CASE u = "0" -> 0 [] u = "1" -> 1 [] u = "2" -> 2 [] u = "3" -> 3
      [] u = "4" -> 4 [] u = "5" -> 5 [] u = "6" -> 6 [] u = "7" -> 7
      [] u = "8" -> 8 [] u = "9" -> 9

\* The number written by the first k decimal digits of s
RECURSIVE NumberOf(_, _)
NumberOf(s, k) ==
    IF k = 0 THEN 0 ELSE 10 * NumberOf(s, k - 1) + DigitValue(s[k][1])

\* The Content-Length a request declares
DeclaredLength(req) == NumberOf(req.headers[Txt(<<"content-length">>)],
                                Len(req.headers[Txt(<<"content-length">>)]))

\* The request declares a Content-Length and is not a multipart one
IsPlain(req) ==
    Txt(<<"content-length">>) \in DOMAIN req.headers /\ ~IsMultipart(req)

\* The bytes of the stream after its first blank line
StreamBody == Drop(upstream, IndexOf(upstream, CRLF2, 0) + 4)

\* The stream is a multipart upload
IsUpload == Includes(upstream, Txt(<<"multipart/form-data">>))

\* The files handed to the handler when the stream arrives as one chunk and the
\* client then closes
OneChunkFiles == OnEnd(OnData(NewConnection, upstream)).calls[1].req.files

\* The mappings from names to strings that a request carries
Mappings(req) == {req.params, req.query, req.headers}

\* The stream has a part with name="f" and no filename, whose content is "h"
HasFieldPart == Includes(upstream, ContentDisposition(FALSE) \o CRLF2)

\* All bytes written to the socket after the blank line of its first head
BodyWritten(sock) == ConcatAll([i \in DOMAIN sock.wire |-> sock.wire[i].body], 1)

\* The handler made the single call sendFile(path), which has finished
SentFile(path) ==
    /\ task.program = <<[kind |-> "sendFile", path |-> path]>>
    /\ task.ops = << >>
    /\ task.jobs[1].pc = "done"
    /\ ~task.jobs[1].failed

----------------------------------------------------------------------------
(* Properties                                                              *)

\* C1: on a connection at most one response head is ever written to the socket,
\* the engine's own responses and the handlers' counted together, and once one
\* is written the socket is ended.
C1_AtMostOneHead ==
    /\ Cardinality(Heads(conn.sock)) <= 1
    /\ Heads(conn.sock) # {} => conn.sock.ended

\* C2: on a connection that carries one request, the route handler is not
\* invoked a second time, whatever events follow the first invocation.
C2_HandlerInvokedOnce == Len(conn.calls) <= 1

\* C3: once a multipart upload was delivered whole, every request handed to the
\* handler has the files it has when the same bytes come as a single chunk,
\* however the stream was cut into chunks.
C3_ChunkingIndependent ==
    (IsUpload /\ inflight = << >>) =>
        \A i \in DOMAIN conn.calls : conn.calls[i].req.files = OneChunkFiles

\* C4: no route handler is invoked at or after the event that made the engine
\* write 413.
C4_NoHandlerAfter413 ==
    \A i \in DOMAIN conn.calls :
        \A j \in 1..conn.calls[i].writes : conn.sock.wire[j].status # 413

\* C5: the handler of a request that declares Content-Length n and is not
\* multipart sees a body of at least n bytes.
C5_BodyCompleteAtDispatch ==
    \A i \in DOMAIN conn.calls :
        IsPlain(conn.calls[i].req) =>
            BLen(conn.calls[i].req.body) >= DeclaredLength(conn.calls[i].req)

\* C6: the response written by a handler that calls res.send(req.body) for a
\* request with Content-Length n and an n-byte body has status 200, the request's
\* body as its body, and Content-Length n.
C6_EchoBody ==
    \A i \in DOMAIN conn.calls :
        (/\ conn.calls[i].handler = "echo"
         /\ IsPlain(conn.calls[i].req)
         /\ conn.calls[i].req.body = StreamBody
         /\ BLen(StreamBody) = DeclaredLength(conn.calls[i].req))
        => /\ conn.sock.wire[conn.calls[i].writes + 1].status = 200
           /\ conn.sock.wire[conn.calls[i].writes + 1].body = StreamBody
           /\ conn.sock.wire[conn.calls[i].writes + 1].headers["Content-Length"]
                  = Digits(BLen(StreamBody))

\* C7: a multipart upload that arrives whole in the first chunk is parsed to its
\* terminal boundary and handed to the handler by that 'data' event.
C7_OneChunkDispatched ==
    [][(/\ IsUpload
        /\ conn = NewConnection
        /\ inflight = upstream
        /\ inflight' = << >>
        /\ BLen(upstream) <= MAX_BUFFER_SIZE)
       => Len(conn'.calls) >= 1]_vars

\* C8: a request handed to the handler after an upload with a field part was
\* delivered whole has the field's text under the field's name in one of its
\* mappings, and has the file of the part before or after the field part.
C8_FieldParts ==
    (HasFieldPart /\ inflight = << >>) =>
        \A i \in DOMAIN conn.calls :
            /\ \E m \in Mappings(conn.calls[i].req) :
                   /\ Txt(<<"f">>) \in DOMAIN m
                   /\ m[Txt(<<"f">>)] = Txt(<<"h">>)
            /\ \E k \in DOMAIN conn.calls[i].req.files :
                   conn.calls[i].req.files[k].name = Txt(<<"a">>)

\* C9: when sendFile has finished for an existing file, below the threshold or
\* not, the bytes written after the blank line are the file's bytes and the
\* Content-Length header is the file's size.
C9_SendFileExact ==
    \A name \in {"empty", "tiny", "under", "exact", "large"} :
        SentFile(Path(name)) =>
            /\ BodyWritten(conn.sock) = FileBytes(Path(name))
            /\ "Content-Length" \in DOMAIN conn.sock.wire[1].headers
            /\ conn.sock.wire[1].headers["Content-Length"]
                   = Digits(BLen(FileBytes(Path(name))))

\* C10: whatever terminal calls a handler makes on one response, the socket gets
\* no second status line.
C10_NoSecondStatusLine == Cardinality(Heads(conn.sock)) <= 1

\* The handler made one terminal call, and the call and what it awaited are over
OneCallOver ==
    /\ Len(task.program) = 1
    /\ task.ops = << >>
    /\ \A i \in DOMAIN task.jobs : task.jobs[i].pc = "done"

\* C11: when a single call of a terminal method is over, whatever its outcome,
\* the socket has got exactly one response head and is ended.
C11_OneHeadPerCall ==
    OneCallOver => (Cardinality(Heads(conn.sock)) = 1 /\ conn.sock.ended)

SongRequest == PlainRequest("GET", Txt(<<"/", "songs", "/", "7">>), << >>)

\* C13: once a request whose path fits the registered pattern /songs/:id and no
\* literal route was delivered, the handler of that route was invoked with
\* req.params binding id to the path's segment.
C13_ParamRoute ==
    (upstream = SongRequest /\ inflight = << >>) =>
        \E i \in DOMAIN conn.calls :
            /\ conn.calls[i].handler = "song"
            /\ "id" \in DOMAIN conn.calls[i].req.params
            /\ conn.calls[i].req.params["id"] = Txt(<<"7">>)

\* The streams that are a request parseBufferRequest accepts and no route matches
UnroutedStreams ==
    {s \in Streams : /\ parseBufferRequest(s) # << >>
                     /\ matchRoute(parseBufferRequest(s)[1]) = << >>}

Unrouted == upstream \in UnroutedStreams

\* C14: once a request that matches no registered route was delivered whole, a
\* response head with status 404 is on the socket, the socket is ended, and no
\* handler was invoked.
C14_NotFound ==
    (Unrouted /\ inflight = << >>) =>
        /\ \E i \in Heads(conn.sock) : conn.sock.wire[i].status = 404
        /\ conn.sock.ended
        /\ conn.calls = << >>

\* What the client has sent so far
Delivered == SubSeq(upstream, 1, Len(upstream) - Len(inflight))

\* The terminal boundary was sent
TerminalDelivered ==
    Includes(Delivered, Txt(<<"-", "-">>) \o Boundary \o Txt(<<"-", "-">>))

\* The file part a with the bytes xy was sent whole, with the delimiter after it
FirstPartDelivered ==
    Includes(Delivered, Part(TRUE, Txt(<<"x", "y">>)) \o Txt(<<"-", "-">>) \o Boundary
                        \o CRLF)

\* The client closes while the parser of an upload to /upload is attached and
\* the terminal boundary was not sent
TruncatedEnd ==
    /\ ~clientEnd /\ clientEnd'
    /\ IsUpload /\ ~Unrouted
    /\ conn.mp # << >>
    /\ ~TerminalDelivered

\* The request the handler got holds the file a with the bytes xy
HasFirstFile(req) ==
    /\ req.files # << >>
    /\ req.files[1].name = Txt(<<"a">>)
    /\ req.files[1].data = Txt(<<"x", "y">>)

\* C15: when the socket emits 'end' before the terminal boundary of an upload
\* was sent, the handler has then been invoked exactly once, with the file part
\* that was sent whole in req.files, and that invocation's response is the only
\* write the event adds to the socket.
C15_TruncatedUpload ==
    [][TruncatedEnd =>
          /\ Len(conn'.calls) = 1
          /\ FirstPartDelivered => HasFirstFile(conn'.calls[1].req)
          /\ Len(conn'.sock.wire) = Len(conn.sock.wire) + 1]_vars

\* C16: the files list of the request object that was handed to a handler is
\* the list the handler was given, whatever socket events came after.
C16_FilesFrozen ==
    \A i \in DOMAIN conn.calls :
        (IsMultipart(conn.calls[i].req) /\ conn.req # << >>) =>
            conn.req[1].files = conn.calls[i].req.files

\* The file names the stream may carry
SomeNames == {Txt(<<"a">>), Txt(<<"c">>)}

\* The filenames of the stream's parts whose Content-Disposition carries filename=
FileNames ==
    {n \in SomeNames :
        Includes(upstream, Txt(<<"file", "name=\"">>) \o n \o Txt(<<"\"">>))}

\* The filenames of the stream's parts whose Content-Disposition carries a name
\* parameter and a filename parameter
NamedFileNames ==
    {n \in SomeNames :
        Includes(upstream, Txt(<<"name=\"", "f", "\"", ";", " ", "file", "name=\"">>)
                           \o n \o Txt(<<"\"">>))}

RECURSIVE DataRuns(_, _, _)
DataRuns(c, rest, k) ==
    IF k = 0 THEN {c}
    ELSE UNION {DataRuns(OnData(c, Norm(SubSeq(rest, 1, n))),
                         SubSeq(rest, n + 1, Len(rest)), k - n) :
                   n \in {m \in Pieces(rest) : m <= k}}

\* The states of a connection served alone whose client has sent s but for
\* left, and has closed or not
AloneConns(s, left, closed) ==
    {IF closed THEN OnEnd(c) ELSE c :
        c \in DataRuns(NewConnection, s, Len(s) - Len(left))}

----------------------------------------------------------------------------
(* ID3v2 tag reading.  A file and a Buffer are sequences of bytes 0..255,  *)
(* a decoded string is a sequence of UTF-16 code units, and a base64       *)
(* string is a sequence of the digits 0..63 and of the padding 64.         *)
(* Offsets are zero-based, as in the code.                                 *)

\* buffer[pos] inside |, & and <<, where undefined counts as 0
ByteAt(buffer, pos) ==
    IF pos >= 0 /\ pos < Len(buffer) THEN buffer[pos + 1] ELSE 0

\* buffer[pos] === 0, which is false past the end of the buffer
IsZeroAt(buffer, pos) ==
    pos >= 0 /\ pos < Len(buffer) /\ buffer[pos + 1] = 0

\* An index of slice, which counts from the end when it is negative
Index(i, len) == IF i < 0 THEN (IF len + i < 0 THEN 0 ELSE len + i) ELSE Min(i, len)

\* buffer.slice(start, end)
slice(buffer, start, end) ==
    SubSeq(buffer, Index(start, Len(buffer)) + 1, Index(end, Len(buffer)))

\* The low 31 bits of the 32-bit integer a, and the 32-bit integer of the
\* sign bit and 31 low bits
Low31(a) == IF a < 0 THEN (a + 2 ^ 30) + 2 ^ 30 ELSE a

Int32(sign, low) == IF sign THEN (low - 2 ^ 30) - 2 ^ 30 ELSE low

\* a | b and a & b on the low n bits of two numbers that are not negative
RECURSIVE OrBits(_, _, _)
OrBits(a, b, n) ==
    IF n = 0 THEN 0
    ELSE (IF a % 2 = 1 \/ b % 2 = 1 THEN 1 ELSE 0)
             + 2 * OrBits(a \div 2, b \div 2, n - 1)

RECURSIVE AndBits(_, _, _)
AndBits(a, b, n) ==
    IF n = 0 THEN 0
    ELSE (IF a % 2 = 1 /\ b % 2 = 1 THEN 1 ELSE 0)
             + 2 * AndBits(a \div 2, b \div 2, n - 1)

\* The operators |, & and << of the language, on 32-bit integers; n is
\* between 1 and 30
BitOr(a, b) == Int32(a < 0 \/ b < 0, OrBits(Low31(a), Low31(b), 31))

BitAnd(a, b) == Int32(a < 0 /\ b < 0, AndBits(Low31(a), Low31(b), 31))

ShiftLeft(a, n) ==
    Int32((a \div (2 ^ (31 - n))) % 2 = 1, (a % (2 ^ (31 - n))) * (2 ^ n))

\* The size expression without its masks
synchsafeUnmasked(b6, b7, b8, b9) ==
    BitOr(BitOr(BitOr(ShiftLeft(b6, 21), ShiftLeft(b7, 14)),
                ShiftLeft(b8, 7)), b9)

\* ((b6 & 0x7f) << 21) | ((b7 & 0x7f) << 14) | ((b8 & 0x7f) << 7) | (b9 & 0x7f)
synchsafe(b6, b7, b8, b9) ==
    BitOr(BitOr(BitOr(ShiftLeft(BitAnd(b6, 127), 21),
                      ShiftLeft(BitAnd(b7, 127), 14)),
                ShiftLeft(BitAnd(b8, 127), 7)),
          BitAnd(b9, 127))

\* (b0 << 24) | (b1 << 16) | (b2 << 8) | b3
plain32(b0, b1, b2, b3) ==
    BitOr(BitOr(BitOr(ShiftLeft(b0, 24), ShiftLeft(b1, 16)),
                ShiftLeft(b2, 8)), b3)

\* The size that is stored in the four bytes at pos, by the tag's version
SizeAt(buffer, pos, major) ==
    IF major = 4
    THEN synchsafe(ByteAt(buffer, pos), ByteAt(buffer, pos + 1),
                   ByteAt(buffer, pos + 2), ByteAt(buffer, pos + 3))
    ELSE plain32(ByteAt(buffer, pos), ByteAt(buffer, pos + 1),
                 ByteAt(buffer, pos + 2), ByteAt(buffer, pos + 3))

\* buffer.toString("base64"), where 64 is the padding character: the digit
\* at place i, of the group of three bytes that begins at byte g
Base64Digit(b, g, k) ==
    IF k = 0 THEN ByteAt(b, g) \div 4
    ELSE IF k = 1 THEN (ByteAt(b, g) % 4) * 16 + ByteAt(b, g + 1) \div 16
    ELSE IF k = 2
    THEN (IF g + 1 >= Len(b) THEN 64
          ELSE (ByteAt(b, g + 1) % 16) * 4 + ByteAt(b, g + 2) \div 64)
    ELSE (IF g + 2 >= Len(b) THEN 64 ELSE ByteAt(b, g + 2) % 64)

bufferToBase64(b) ==
    << >> \o [i \in 1 .. 4 * ((Len(b) + 2) \div 3) |->
                Base64Digit(b, 3 * ((i - 1) \div 4), (i - 1) % 4)]

\* Buffer.from(text, "base64"): the byte at place k of the group of four
\* digits that begins at digit g
Base64Byte(t, g, k) ==
    IF k = 0 THEN t[g + 1] * 4 + t[g + 2] \div 16
    ELSE IF k = 1 THEN (t[g + 2] % 16) * 16 + t[g + 3] \div 4
    ELSE (t[g + 3] % 4) * 64 + t[g + 4]

bufferFromBase64(t) ==
    << >> \o
    [j \in 1 .. (Len(t) \div 4) * 3
                    - (IF Len(t) > 0 /\ t[Len(t)] = 64 THEN 1 ELSE 0)
                    - (IF Len(t) > 1 /\ t[Len(t) - 1] = 64 THEN 1 ELSE 0) |->
        Base64Byte(t, 4 * ((j - 1) \div 3), (j - 1) % 3)]

\* buffer.toString("latin1"), ("ascii"), ("utf8") and ("utf16le").  The bytes
\* of the files are ASCII, 0x80 or 0xff: the last two are never part of a
\* well-formed UTF-8 sequence, and each decodes to U+FFFD
latin1(b) == b

ascii(b) == [i \in DOMAIN b |-> b[i] % 128]

utf8(b) == [i \in DOMAIN b |-> IF b[i] < 128 THEN b[i] ELSE 65533]

utf16le(b) == [i \in 1 .. (Len(b) \div 2) |-> b[2 * i - 1] + 256 * b[2 * i]]

\* text.replace(/\0+$/, "")
RECURSIVE stripNuls(_)
stripNuls(text) ==
    IF text # << >> /\ text[Len(text)] = 0
    THEN stripNuls(SubSeq(text, 1, Len(text) - 1))
    ELSE text

\* The frame identifiers and the tag identifier
ID3 == <<73, 68, 51>>
TIT2 == <<84, 73, 84, 50>>
TPE1 == <<84, 80, 69, 49>>
TALB == <<84, 65, 76, 66>>
TYER == <<84, 89, 69, 82>>
TDRC == <<84, 68, 82, 67>>
COMM == <<67, 79, 77, 77>>
TRCK == <<84, 82, 67, 75>>
TCON == <<84, 67, 79, 78>>
APIC == <<65, 80, 73, 67>>

\* decodeTextFrame of readID3v2Tags: the text after the encoding byte
decodeTextFrame(buffer) ==
    LET encoding == ByteAt(buffer, 0)
        textBuffer == slice(buffer, 1, Len(buffer))
    IN  IF encoding = 0 THEN stripNuls(latin1(textBuffer))
        ELSE IF encoding = 1 \/ encoding = 2 THEN stripNuls(utf16le(textBuffer))
        ELSE stripNuls(utf8(textBuffer))

\* decodeTextFrame of getBasicTags, which has no case for encoding 2
decodeTextFrameBasic(buffer) ==
    LET encoding == ByteAt(buffer, 0)
        textBuffer == slice(buffer, 1, Len(buffer))
    IN  IF encoding = 0 THEN stripNuls(latin1(textBuffer))
        ELSE IF encoding = 1 THEN stripNuls(utf16le(textBuffer))
        ELSE stripNuls(utf8(textBuffer))

\* The index of the first zero byte at or after from, or the place where the
\* search `while (i < buffer.length && buffer[i] !== 0) i++` stops without one
FirstZero(buffer, from) ==
    LET zeros == {i \in from .. (Len(buffer) - 1) : IsZeroAt(buffer, i)}
    IN  IF zeros # {} THEN CHOOSE i \in zeros : \A j \in zeros : i <= j
        ELSE IF from < Len(buffer) THEN Len(buffer) ELSE from

\* The same for a pair of zero bytes, in steps of two:
\* `while (i < buffer.length - 1 && !(pair at i)) i += 2`
FirstZeroPair(buffer, from) ==
    LET stops == {i \in from .. (Len(buffer) + 1) :
                    /\ (i - from) % 2 = 0
                    /\ \/ i >= Len(buffer) - 1
                       \/ IsZeroAt(buffer, i) /\ IsZeroAt(buffer, i + 1)}
    IN  IF from >= Len(buffer) - 1 THEN from
        ELSE CHOOSE i \in stops : \A j \in stops : i <= j

\* decodeCommentFrame: the text after the language and the description
decodeCommentFrame(buffer) ==
    LET encoding == ByteAt(buffer, 0)
        commentStart == FirstZero(buffer, 4) + 1
        comment == SubSeq(buffer, commentStart + 1, Len(buffer))
    IN  IF encoding = 0 THEN stripNuls(latin1(comment))
        ELSE IF encoding = 1 \/ encoding = 2 THEN stripNuls(utf16le(comment))
        ELSE stripNuls(utf8(comment))

\* decodeImageFrame: the picture after the MIME type, the picture type and
\* the description, in base64
decodeImageFrame(buffer) ==
    LET encoding == ByteAt(buffer, 0)
        pos == FirstZero(buffer, 1) + 2
        descEnd == IF encoding = 0 \/ encoding = 3
                   THEN FirstZero(buffer, pos) + 1
                   ELSE FirstZeroPair(buffer, pos) + 2
    IN  bufferToBase64(slice(buffer, descEnd, Len(buffer)))

\* A tag object without properties.  A property is << >> when it is not set
\* and <<value>> when it is; other holds the properties named by a frame id
NoTags ==
    [title |-> << >>, artist |-> << >>, album |-> << >>, year |-> << >>,
     comment |-> << >>, track |-> << >>, genre |-> << >>, image |-> << >>,
     hasImage |-> << >>, other |-> {}]

\* The tags after the frame frameId with content frameContent
StoreFrame(tags, frameId, frameContent) ==
    IF frameId = TIT2
    THEN [tags EXCEPT !.title = <<decodeTextFrame(frameContent)>>]
    ELSE IF frameId = TPE1
    THEN [tags EXCEPT !.artist = <<decodeTextFrame(frameContent)>>]
    ELSE IF frameId = TALB
    THEN [tags EXCEPT !.album = <<decodeTextFrame(frameContent)>>]
    ELSE IF frameId = TYER \/ frameId = TDRC
    THEN [tags EXCEPT !.year = <<decodeTextFrame(frameContent)>>]
    ELSE IF frameId = COMM
    THEN [tags EXCEPT !.comment = <<decodeCommentFrame(frameContent)>>]
    ELSE IF frameId = TRCK
    THEN [tags EXCEPT !.track = <<decodeTextFrame(frameContent)>>]
    ELSE IF frameId = TCON
    THEN [tags EXCEPT !.genre = <<decodeTextFrame(frameContent)>>]
    ELSE IF frameId = APIC
    THEN IF decodeImageFrame(frameContent) # << >>
         THEN [tags EXCEPT !.image = <<decodeImageFrame(frameContent)>>]
         ELSE tags
    ELSE IF frameId # << >> /\ frameId[1] = 84
                            /\ decodeTextFrame(frameContent) # << >>
    THEN [tags EXCEPT !.other =
            {p \in @ : p[1] # frameId}
                \cup {<<frameId, decodeTextFrame(frameContent)>>}]
    ELSE tags

\* The size test of the frame loops without its upper limit
NotPositive(frameSize, remaining) == frameSize <= 0

\* frameSize <= 0 || frameSize > buffer.length - pos, after which the frame
\* loops stop; remaining is the number of bytes after the frame header
InvalidSize(frameSize, remaining) == frameSize <= 0 \/ frameSize > remaining

\* The frame loop of readID3v2Tags from pos on
RECURSIVE ParseFrames(_, _, _, _, _)
ParseFrames(buffer, pos, endPos, major, tags) ==
    IF pos >= endPos \/ IsZeroAt(buffer, pos) THEN tags
    ELSE LET frameId == ascii(slice(buffer, pos, pos + 4))
             frameSize == SizeAt(buffer, pos + 4, major)
         IN  IF InvalidSize(frameSize, Len(buffer) - (pos + 10))
             THEN tags
             ELSE ParseFrames(buffer, pos + 10 + frameSize, endPos, major,
                      StoreFrame(tags, frameId,
                          slice(buffer, pos + 10, pos + 10 + frameSize)))

\* Where the frames begin: after the header and the extended header
FramesStart(buffer, major, hasExtendedHeader) ==
    IF ~hasExtendedHeader THEN 10
    ELSE IF major = 4 THEN 10 + SizeAt(buffer, 10, major)
    ELSE 10 + SizeAt(buffer, 10, major) + 4

\* The frames that scanFramePositions records
neededFrames == {TIT2, TPE1, TALB, APIC}

\* The loop of scanFramePositions from pos on
RECURSIVE scanFramePositions(_, _, _, _, _)
scanFramePositions(buffer, pos, endPos, major, framePositions) ==
    IF pos >= endPos - 10 THEN framePositions
    ELSE LET frameId == ascii(slice(buffer, pos, pos + 4))
             frameSize == SizeAt(buffer, pos + 4, major)
         IN  IF InvalidSize(frameSize, Len(buffer) - (pos + 10))
             THEN framePositions
             ELSE scanFramePositions(buffer, pos + 10 + frameSize, endPos, major,
                      IF frameId \in neededFrames
                      THEN [id \in DOMAIN framePositions \cup {frameId} |->
                               IF id = frameId
                               THEN [pos |-> pos + 10, size |-> frameSize]
                               ELSE framePositions[id]]
                      ELSE framePositions)

\* The scan of getBasicTags: the whole buffer from 0
FramesOf(buffer, major) ==
    scanFramePositions(buffer, 0, Len(buffer), major, << >>)

\* The terminator test of findNullTerminator at pos
AtTerminator(buffer, pos, isDoubleByte) ==
    IF isDoubleByte
    THEN pos + 1 < Len(buffer) /\ IsZeroAt(buffer, pos) /\ IsZeroAt(buffer, pos + 1)
    ELSE IsZeroAt(buffer, pos)

\* The first loop of findNullTerminator, which steps by step and, past the
\* end, goes back and steps by one.  It comes back to the state it was in
\* after it went back with step one (again is true then) when it goes back
\* once more: the loop does not end then, which is the result -1
RECURSIVE CoarseSearch(_, _, _, _, _, _)
CoarseSearch(buffer, start, isDoubleByte, pos, step, again) ==
    IF pos >= Len(buffer) \/ AtTerminator(buffer, pos, isDoubleByte) THEN pos
    ELSE IF pos + step < Len(buffer)
    THEN CoarseSearch(buffer, start, isDoubleByte, pos + step, step, again)
    ELSE IF step = 1 /\ again THEN 0 - 1
    ELSE CoarseSearch(buffer, start, isDoubleByte,
                      Min(start + step - 1, Len(buffer) - 1), 1, step = 1)

\* findNullTerminator: the position it returns, or -1 when it does not return
findNullTerminator(buffer, start, isDoubleByte) ==
    LET found == CoarseSearch(buffer, start, isDoubleByte, start, 16, FALSE)
        width == IF isDoubleByte THEN 2 ELSE 1
        pos == IF found >= Len(buffer) \/ (isDoubleByte /\ found + 1 >= Len(buffer))
               THEN (IF start > Len(buffer) - width THEN start
                     ELSE Len(buffer) - width)
               ELSE found
    IN  IF found < 0 THEN found
        ELSE IF isDoubleByte THEN FirstZeroPair(buffer, pos)
        ELSE FirstZero(buffer, pos)

\* extractImageIfSmallEnough: <<image>>, << >> for undefined, and hang when
\* a search of it does not return
extractImageIfSmallEnough(buffer, frameSize) ==
    LET isDoubleByte == ByteAt(buffer, 0) = 1 \/ ByteAt(buffer, 0) = 2
        mimeEndPos == findNullTerminator(buffer, 1, FALSE)
        descStartPos == mimeEndPos + 2
        descEndPos == findNullTerminator(buffer, descStartPos, isDoubleByte)
        imageStartPos == descEndPos + (IF isDoubleByte THEN 2 ELSE 1)
    IN  IF frameSize > 1000000 THEN [hang |-> FALSE, image |-> << >>]
        ELSE IF mimeEndPos < 0 THEN [hang |-> TRUE, image |-> << >>]
        ELSE IF descStartPos >= Len(buffer) THEN [hang |-> FALSE, image |-> << >>]
        ELSE IF descEndPos < 0 THEN [hang |-> TRUE, image |-> << >>]
        ELSE IF imageStartPos >= Len(buffer) THEN [hang |-> FALSE, image |-> << >>]
        ELSE [hang |-> FALSE,
              image |-> <<bufferToBase64(slice(buffer, imageStartPos, Len(buffer)))>>]

\* The text of the frame id that the scan recorded, as the property value
FrameText(buffer, framePositions, id) ==
    IF id \in DOMAIN framePositions
    THEN <<decodeTextFrameBasic(slice(buffer, framePositions[id].pos,
               framePositions[id].pos + framePositions[id].size))>>
    ELSE << >>

\* `${tags.artist}-${tags.album}`
cacheKey(tags) == tags.artist[1] \o <<45>> \o tags.album[1]

\* The picture frame that the scan recorded, cut at the end of the buffer
PictureFrame(buffer, framePositions) ==
    slice(buffer, framePositions[APIC].pos,
          framePositions[APIC].pos
              + Min(framePositions[APIC].size,
                    Len(buffer) - framePositions[APIC].pos))

\* The frame size from which getBasicTags leaves the picture to be loaded later
LazyThreshold == 100000

\* The artwork part of getBasicTags: the tags, the cache and whether the
\* call goes on for ever
WithArtwork(tags, buffer, framePositions, artCache) ==
    IF tags.album \in {<< >>, <<<< >>>>} \/ tags.artist \in {<< >>, <<<< >>>>}
    THEN [hang |-> FALSE, tags |-> tags, artCache |-> artCache]
    ELSE IF cacheKey(tags) \in DOMAIN artCache /\ artCache[cacheKey(tags)] # << >>
    THEN [hang |-> FALSE,
          tags |-> [tags EXCEPT !.image = <<artCache[cacheKey(tags)]>>],
          artCache |-> artCache]
    ELSE IF APIC \notin DOMAIN framePositions
    THEN [hang |-> FALSE, tags |-> tags, artCache |-> artCache]
    ELSE IF framePositions[APIC].size >= LazyThreshold
    THEN [hang |-> FALSE, tags |-> [tags EXCEPT !.hasImage = <<"true">>],
          artCache |-> artCache]
    ELSE LET imageData == extractImageIfSmallEnough(
                              PictureFrame(buffer, framePositions),
                              framePositions[APIC].size)
         IN  IF imageData.hang \/ imageData.image \in {<< >>, <<<< >>>>}
             THEN [hang |-> imageData.hang,
                   tags |-> [tags EXCEPT !.hasImage = <<"true">>],
                   artCache |-> artCache]
             ELSE [hang |-> FALSE,
                   tags |-> [tags EXCEPT !.hasImage = <<"true">>,
                                         !.image = imageData.image],
                   artCache |-> [k \in DOMAIN artCache \cup {cacheKey(tags)} |->
                                    IF k = cacheKey(tags) THEN imageData.image[1]
                                    ELSE artCache[k]]]

\* getBasicTags after its second read
BasicTags(buffer, framePositions, artCache) ==
    WithArtwork([NoTags EXCEPT
                    !.title = FrameText(buffer, framePositions, TIT2),
                    !.artist = FrameText(buffer, framePositions, TPE1),
                    !.album = FrameText(buffer, framePositions, TALB)],
                buffer, framePositions, artCache)

\* FileSystem.readAsStringAsync(filePath, {encoding: Base64, length, position})
\* when it resolves
readBase64(file, length, position) ==
    bufferToBase64(SubSeq(file, position + 1, Min(position + length, Len(file))))

\* A call of fn on file: it waits for its first read
NewReader(fn, filePath, artCache) ==
    [pc |-> "header", fn |-> fn, filePath |-> filePath, artCache |-> artCache,
     major |-> 0, hasExtendedHeader |-> FALSE, size |-> 0,
     result |-> << >>, failed |-> FALSE, thrown |-> FALSE, lazy |-> << >>]

\* The result null
Null == [null |-> TRUE]

\* The call returns result
Returns(r, result) == [r EXCEPT !.pc = "done", !.result = <<result>>]

\* A read of the call rejects
Rejected(r) == [r EXCEPT !.failed = TRUE]

\* An exception inside the function's try block without its catch clause
Uncaught(r) == [r EXCEPT !.pc = "done", !.thrown = TRUE]

\* An exception inside the function's try block: the catch clause returns null
Caught(r) == Returns(r, Null)

\* The call after its first read gave headerData
AfterHeader(r, headerData) ==
    LET headerBuffer == bufferFromBase64(headerData)
    IN  IF utf8(slice(headerBuffer, 0, 3)) # ID3 THEN Returns(r, Null)
        ELSE [r EXCEPT !.pc = "tag",
                       !.major = ByteAt(headerBuffer, 3),
                       !.hasExtendedHeader =
                           BitAnd(ByteAt(headerBuffer, 5), 64) # 0,
                       !.size = synchsafe(ByteAt(headerBuffer, 6),
                                          ByteAt(headerBuffer, 7),
                                          ByteAt(headerBuffer, 8),
                                          ByteAt(headerBuffer, 9))]

\* The length and the position of the second read
TagLength(r) ==
    IF r.fn = "getBasicTags" THEN Min(1000000, r.size) ELSE 10 + r.size

TagPosition(r) == IF r.fn = "getBasicTags" THEN 10 ELSE 0

\* getBasicTags after its second read gave the buffer
AfterBasic(r, basic) ==
    IF basic.hang THEN [r EXCEPT !.pc = "hang", !.artCache = basic.artCache]
    ELSE [Returns(r, basic.tags) EXCEPT !.artCache = basic.artCache]

\* The call after its second read gave tagData
AfterTag(r, tagData) ==
    IF r.fn = "getBasicTags"
    THEN AfterBasic(r, BasicTags(bufferFromBase64(tagData),
                        FramesOf(bufferFromBase64(tagData), r.major),
                        r.artCache))
    ELSE Returns(r, ParseFrames(bufferFromBase64(tagData),
                        FramesStart(bufferFromBase64(tagData), r.major,
                                    r.hasExtendedHeader),
                        10 + r.size, r.major, NoTags))

\* The four synchsafe bytes of s: seven bits a byte, the highest first
synchsafeBytes(s) ==
    <<(s \div (2 ^ 21)) % 128, (s \div (2 ^ 14)) % 128, (s \div (2 ^ 7)) % 128,
      s % 128>>

\* The four bytes of s as a plain big-endian number
plainBytes(s) ==
    <<(s \div (2 ^ 24)) % 256, (s \div (2 ^ 16)) % 256, (s \div (2 ^ 8)) % 256,
      s % 256>>

\* A tag header, and a frame of a tag of version 2.major
TagHeader(major, flags, sizeBytes) == ID3 \o <<major, 0, flags>> \o sizeBytes

Frame(major, frameId, content) ==
    frameId
        \o (IF major = 4 THEN synchsafeBytes(Len(content))
            ELSE plainBytes(Len(content)))
        \o <<0, 0>> \o content

\* A tag of the frames, with padding
Tag(major, flags, frames, padding) ==
    TagHeader(major, flags, synchsafeBytes(Len(frames) + Len(padding)))
        \o frames \o padding

\* Frame contents: Latin-1 "ab", UTF-16 "c" with its terminator, UTF-8 "d",
\* a comment, and pictures with and without the terminator of the MIME type
TextAB == <<0, 97, 98>>
TextC == <<1, 99, 0, 0, 0>>
TextD == <<3, 100, 0>>
Comment == <<0, 101, 110, 103, 0, 104, 105>>
Picture == <<0, 105, 0, 3, 0, 1, 2, 3>>
PictureWide == <<1, 105, 0, 3, 120, 0, 0, 0, 255, 128>>
PictureOpen == <<0, 105, 109, 103>>

\* A picture frame of more bytes than the threshold, with a picture of bytes
\* that are not zero
LazyPicture == <<0, 105, 0, 3, 0>> \o [i \in 1 .. (LazyThreshold - 4) |-> 1]

\* The frames of a song of version 2.major
SongFrames(major, picture) ==
    Frame(major, TIT2, TextAB) \o Frame(major, TPE1, TextC)
        \o Frame(major, TALB, TextD) \o Frame(major, COMM, Comment)
        \o Frame(major, TCON, TextAB) \o Frame(major, APIC, picture)

\* The bytes that the size probes put in the size field of the header
SizeSamples == {0, 1, 127, 128, 255}

\* Files with no tag, short files, a tag cut short, frames whose size is past
\* the end or negative, and extended headers
OddFiles ==
    << << >>, <<73, 68>>, ID3, <<73, 68, 51, 3, 0>>,
       <<82, 73, 70, 70, 0, 0, 0, 0, 0, 0, 0, 0>>,
       <<105, 100, 51, 3, 0, 0, 0, 0, 0, 10, 0, 0>>,
       <<255, 68, 51, 3, 0, 0, 0, 0, 0, 10, 0, 0>>,
       SubSeq(Tag(3, 0, SongFrames(3, Picture), << >>), 1, 40),
       TagHeader(3, 0, synchsafeBytes(30)) \o TIT2 \o plainBytes(200)
           \o <<0, 0>> \o TextAB,
       TagHeader(3, 0, synchsafeBytes(30)) \o TIT2 \o <<255, 0, 0, 3>>
           \o <<0, 0>> \o TextAB,
       Tag(4, 64, synchsafeBytes(6) \o <<1, 0>> \o Frame(4, TIT2, TextAB), << >>),
       Tag(3, 64, plainBytes(2) \o <<0, 0>> \o Frame(3, TIT2, TextAB), << >>) >>

\* The paths of songs with a picture frame above the threshold: of version 2.3
\* with the artist and album frames, of version 2.4 without them
LazyPaths == {<<"lazy", 3>>, <<"lazy", 4>>}

\* The paths of tags in which a frame with a wrong size follows the title
\* frame and comes before the album frame: size zero, size past the end of
\* the file, and in version 2.3 a size with the top bit set
CutPaths ==
    { <<"cut", major, size>> : major \in {3, 4}, size \in {"zero", "long"} }
        \cup { <<"cut", 3, "negative">> }

\* The paths of the files: the odd files, whole songs, the songs with a large
\* picture, and headers with every combination of the sample bytes in the
\* size field
TagPaths ==
    { <<"odd", k>> : k \in DOMAIN OddFiles }
    \cup { <<"song", major, picture>> :
              major \in {3, 4}, picture \in {"small", "wide", "open"} }
    \cup LazyPaths
    \cup CutPaths
    \cup { <<"probe", b6, b7, b8, b9>> :
              b6 \in SizeSamples, b7 \in SizeSamples, b8 \in SizeSamples,
              b9 \in SizeSamples }

\* The bytes of the file at filePath
TagFile(filePath) ==
    CASE filePath[1] = "odd" -> OddFiles[filePath[2]]
      [] filePath[1] = "song" ->
            Tag(filePath[2], 0,
                SongFrames(filePath[2],
                           CASE filePath[3] = "small" -> Picture
                             [] filePath[3] = "wide" -> PictureWide
                             [] OTHER -> PictureOpen),
                <<0, 0, 0, 0>>)
      [] filePath[1] = "cut" ->
            TagHeader(filePath[2], 0, synchsafeBytes(50))
                \o Frame(filePath[2], TIT2, TextAB)
                \o TPE1
                \o (CASE filePath[3] = "zero" -> <<0, 0, 0, 0>>
                      [] filePath[3] = "long" -> <<0, 0, 1, 72>>
                      [] OTHER -> <<128, 0, 0, 5>>)
                \o <<0, 0>> \o TextC
                \o Frame(filePath[2], TALB, TextD)
      [] filePath[1] = "lazy" ->
            IF filePath[2] = 3 THEN Tag(3, 0, SongFrames(3, LazyPicture), << >>)
            ELSE Tag(4, 0, Frame(4, TIT2, TextAB) \o Frame(4, APIC, LazyPicture),
                     << >>)
      [] OTHER ->
            TagHeader(4, 0, SubSeq(filePath, 2, 5)) \o Frame(4, TIT2, TextAB)

\* The art caches at the call: empty, and with the song's artwork
ArtCaches ==
    { << >>, [k \in {<<99, 45, 100>>} |-> bufferToBase64(<<9, 9>>)] }

InitTags ==
    /\ conn = NewConnection
    /\ task = NoTask
    /\ upstream = << >>
    /\ inflight = << >>
    /\ clientEnd = FALSE
    /\ timeouts = 0
    /\ peer = NoPeer
    /\ parser = NoParser
    /\ reader \in {NewReader("readID3v2Tags", filePath, << >>) :
                       filePath \in TagPaths \ LazyPaths}
                  \cup {NewReader("getBasicTags", filePath, artCache) :
                           filePath \in TagPaths, artCache \in ArtCaches}

\* The first read of the call resolves, or it rejects
HeaderRead ==
    /\ reader.pc = "header"
    /\ \/ reader' = AfterHeader(reader, readBase64(TagFile(reader.filePath), 10, 0))
       \/ reader' = Caught(Rejected(reader))
    /\ UNCHANGED <<conn, upstream, inflight, clientEnd, timeouts, task, peer, parser>>

\* The second read of the call resolves, or it rejects
TagRead ==
    /\ reader.pc = "tag"
    /\ \/ reader' = AfterTag(reader, readBase64(TagFile(reader.filePath),
                                         TagLength(reader), TagPosition(reader)))
       \/ reader' = Caught(Rejected(reader))
    /\ UNCHANGED <<conn, upstream, inflight, clientEnd, timeouts, task, peer, parser>>

\* The tag record that a call of getBasicTags has returned
BasicResult == reader.pc = "done" /\ reader.fn = "getBasicTags"
                   /\ reader.result # <<Null>>

\* The buffer of the second read of getBasicTags, and the place of the
\* picture frame that scanFramePositions recorded in it
BasicBuffer(r) ==
    bufferFromBase64(readBase64(TagFile(r.filePath), TagLength(r), TagPosition(r)))

PicturePosition(r) == FramesOf(BasicBuffer(r), r.major)[APIC]

\* loadImageLazily: <<text>>, or << >> for undefined when the read rejects
loadImageLazily(file, framePos, frameSize, rejects) ==
    IF rejects THEN << >> ELSE <<readBase64(file, frameSize, framePos)>>

\* The caller of getBasicTags loads the picture of a record with hasImage
\* from the recorded place of the frame; the read resolves or rejects
LazyLoad ==
    /\ BasicResult
    /\ reader.result[1].hasImage = <<"true">>
    /\ \E rejects \in BOOLEAN :
          reader' = [reader EXCEPT
                        !.pc = "loaded",
                        !.lazy = <<[framePos |-> PicturePosition(reader).pos,
                                    frameSize |-> PicturePosition(reader).size,
                                    rejects |-> rejects]>>]
    /\ UNCHANGED <<conn, upstream, inflight, clientEnd, timeouts, task, peer, parser>>

NextTags == HeaderRead \/ TagRead \/ LazyLoad

SpecTags == InitTags /\ [][NextTags]_vars

\* C19: readID3v2Tags and getBasicTags let no exception reach the caller,
\* and the result is null when the file does not begin with "ID3" (files
\* shorter than the header included) and when a read fails.
C19_NullNotThrown ==
    /\ ~reader.thrown
    /\ (reader.pc # "header" /\ slice(TagFile(reader.filePath), 0, 3) # ID3)
           => (reader.pc = "done" /\ reader.result = <<Null>>)
    /\ reader.failed => (reader.pc = "done" /\ reader.result = <<Null>>)

\* A call on a file shorter than the header that does not begin with "ID3"
\* has returned
C19_ShortFile ==
    /\ reader.pc = "done"
    /\ ~reader.failed
    /\ TagFile(reader.filePath) # << >>
    /\ Len(TagFile(reader.filePath)) < 10
    /\ slice(TagFile(reader.filePath), 0, 3) # ID3

\* The size bytes of the file's header
SizeField(file) == slice(file, 6, 10)

\* The sizes whose synchsafe bytes are sample bytes
SampleSizes ==
    {b6 * (2 ^ 21) + b7 * (2 ^ 14) + b8 * (2 ^ 7) + b9 :
        b6 \in SizeSamples \cap (0 .. 127), b7 \in SizeSamples \cap (0 .. 127),
        b8 \in SizeSamples \cap (0 .. 127), b9 \in SizeSamples \cap (0 .. 127)}

\* C20: the size decoded from the synchsafe bytes of s is s, for every s below
\* 2^28; the decoder ignores the top bit of each byte, and its result is at
\* least 0 and below 2^28.
C20_SynchsafeRoundTrip ==
    reader.pc = "tag" =>
        /\ \A s \in SampleSizes :
              SizeField(TagFile(reader.filePath)) = synchsafeBytes(s) => reader.size = s
        /\ reader.size = synchsafe(ByteAt(TagFile(reader.filePath), 6) % 128,
                                   ByteAt(TagFile(reader.filePath), 7) % 128,
                                   ByteAt(TagFile(reader.filePath), 8) % 128,
                                   ByteAt(TagFile(reader.filePath), 9) % 128)
        /\ reader.size >= 0
        /\ reader.size < 2 ^ 28

\* The size was decoded from the synchsafe bytes of a number of four
\* non-zero digits
C20_Decoded ==
    /\ reader.pc = "tag"
    /\ reader.size > 2 ^ 27
    /\ reader.size % 128 = 1
    /\ SizeField(TagFile(reader.filePath)) = synchsafeBytes(reader.size)

\* C21: in a tag record returned by getBasicTags hasImage and image are never
\* both set.
C21_ImageExclusive ==
    BasicResult =>
        ~(reader.result[1].hasImage # << >> /\ reader.result[1].image # << >>)

\* C22: for a tag with a picture frame above the lazy-load threshold and an
\* art cache without an entry for the tag, getBasicTags returns a record with
\* hasImage set and no image, with or without artist and album frames.
C22_LazyPicture ==
    (BasicResult /\ reader.filePath \in LazyPaths /\ reader.artCache = << >>)
        => (reader.result[1].hasImage = <<"true">>
               /\ reader.result[1].image = << >>)

\* The picture frame that the scan of getBasicTags recorded
RecordedFrame(r) ==
    slice(BasicBuffer(r), PicturePosition(r).pos,
          PicturePosition(r).pos + PicturePosition(r).size)

\* C23: the positioned read of loadImageLazily at the recorded place and
\* length of the picture frame returns the image that decoding the frame
\* returns.
C23_LazyEqualsDecoded ==
    (reader.pc = "loaded" /\ ~reader.lazy[1].rejects) =>
        loadImageLazily(TagFile(reader.filePath), reader.lazy[1].framePos,
                        reader.lazy[1].frameSize, FALSE)
            = <<decodeImageFrame(RecordedFrame(reader))>>

\* getBasicTags has extracted the picture of the recorded frame
Extracted ==
    /\ BasicResult
    /\ reader.result[1].hasImage = <<"true">>
    /\ reader.result[1].image # << >>

\* C24: findNullTerminator returns the index that a linear scan for the first
\* terminator returns, for single and double bytes, so the picture that
\* extractImageIfSmallEnough extracts is the picture of decodeImageFrame.
C24_SameAsLinear ==
    Extracted =>
        /\ findNullTerminator(RecordedFrame(reader), 1, FALSE)
               = FirstZero(RecordedFrame(reader), 1)
        /\ ByteAt(RecordedFrame(reader), 0) \in {1, 2} =>
               findNullTerminator(RecordedFrame(reader),
                                  FirstZero(RecordedFrame(reader), 1) + 2, TRUE)
                   = FirstZeroPair(RecordedFrame(reader),
                                   FirstZero(RecordedFrame(reader), 1) + 2)
        /\ reader.result[1].image = <<decodeImageFrame(RecordedFrame(reader))>>

\* C25: extractImageIfSmallEnough, and with it getBasicTags, returns for
\* every frame buffer: no call goes on for ever.
C25_Terminates == reader.pc # "hang"

\* The recorded frames are not empty and end inside a buffer of len bytes
InsideBuffer(framePositions, len) ==
    \A id \in DOMAIN framePositions :
       /\ framePositions[id].size > 0
       /\ framePositions[id].pos + framePositions[id].size <= len

\* The same for the frames that the scan of getBasicTags recorded in buffer
RecordedInside(buffer, major) == InsideBuffer(FramesOf(buffer, major), Len(buffer))

\* C28: frame scanning stops at the first frame whose size is zero, negative
\* or larger than what is left of the buffer: the frames before it are kept,
\* the call returns its tags, and no recorded frame extends past the end of
\* the buffer.
C28_ScanStops ==
    /\ (reader.pc = "done" /\ ~reader.failed /\ reader.filePath \in CutPaths)
           => reader.result = <<[NoTags EXCEPT !.title = <<<<97, 98>>>>]>>
    /\ (reader.fn = "getBasicTags" /\ reader.pc \notin {"header", "tag"}
            /\ ~reader.failed /\ reader.result # <<Null>>)
           => RecordedInside(BasicBuffer(reader), reader.major)

\* A call has returned the tags of a file whose second frame has a size past
\* the end of the file
C28_LongFrame ==
    /\ reader.pc = "done"
    /\ ~reader.failed
    /\ reader.filePath \in {<<"cut", 3, "long">>, <<"cut", 4, "long">>}

----------------------------------------------------------------------------
(* Raw bodies and the search the request parser relies on                  *)

\* The bytes of b after its first blank line
AfterBlankLine(b) == Drop(b, IndexOf(b, CRLF2, 0) + 4)

\* The bytes the socket has delivered once the step is over
Received == Norm(SubSeq(upstream, 1, Len(upstream) - Len(inflight')))

\* C29: when the first request of a connection is handed to its handler and is
\* not a multipart one, its body is byte for byte what followed the first
\* \r\n\r\n in the bytes received up to then.
C29_RawBody ==
    [][(/\ conn.calls = << >>
        /\ conn'.calls # << >>
        /\ ~IsMultipart(conn'.calls[1].req))
       => Norm(conn'.calls[1].req.body) = Norm(AfterBlankLine(Received))]_vars

\* The offsets at which a run of b begins
RunOffsets(b) == {Offset(b, k) : k \in 1..Len(b)}

\* C30: when the first request of a connection is handed to its handler, the
\* search the parser used on the received bytes gives, from every offset, what
\* indexOf gives: the first \r\n at or after the offset, or -1.
C30_SameAsIndexOf ==
    [][(conn.calls = << >> /\ conn'.calls # << >>)
       => \A start \in RunOffsets(Received) :
              findInBuffer(Received, CRLF, start) = IndexOf(Received, CRLF, start)]_vars

----------------------------------------------------------------------------
(* The content state of the multipart parser                               *)

\* The delimiter line that separates two parts, without its line ending
Delimiter == Txt(<<"-", "-">>) \o Boundary

\* C26: the bytes of a file handed to a handler end at the nearest delimiter
\* after the part's headers: no file's data holds a delimiter, and so none holds
\* the parts that followed it in the stream.
C26_NearestBoundary ==
    \A i \in DOMAIN conn.calls :
        \A k \in DOMAIN conn.calls[i].req.files :
            ~Includes(conn.calls[i].req.files[k].data, Delimiter)

----------------------------------------------------------------------------
(* The multipart parser of the server class in                             *)
(* src/components/SelectableSongItem.tsx, streamMultipartFormData          *)

\* The bytes that stay in the buffer when an open file part is flushed
ITEM_TAIL == 256

boundaryMarkers(boundary) ==
    [start |-> Txt(<<"-", "-">>) \o boundary \o CRLF,
     end |-> Txt(<<"-", "-">>) \o boundary \o Txt(<<"-", "-">>) \o CRLF,
     delimiter |-> CRLF \o Txt(<<"-", "-">>) \o boundary \o CRLF]

\* The closure state of one streamMultipartFormData call; callbacks counts the
\* calls of callback(req), each of which is made after req.files = files
NewItemParser(boundary) ==
    [markers |-> boundaryMarkers(boundary), files |-> << >>, currentFile |-> << >>,
     buffer |-> << >>, state |-> "boundary", headerText |-> << >>, callbacks |-> 0]

\* One pass of the state 'boundary', boundaryIndex the offset of the start marker
ItemBoundaryFound(p, boundaryIndex) ==
    IF boundaryIndex # -1
    THEN [p |-> [p EXCEPT !.buffer = Drop(@, boundaryIndex + BLen(p.markers.start)),
                          !.state = "headers", !.headerText = << >>],
          out |-> "progress"]
    ELSE [p |-> p, out |-> "wait"]

\* The end of the state 'headers': a part without filename or name is skipped
ItemHeadersMatched(p, headers, filenameMatch, nameMatch) ==
    [p |-> [p EXCEPT
               !.currentFile =
                   IF filenameMatch # << >> /\ nameMatch # << >>
                   THEN <<[headers |-> headers,
                           name |-> filenameMatch[1],
                           type |-> ValueOf(GetKey(headers, Txt(<<"content-type">>))),
                           data |-> << >>, size |-> 0]>>
                   ELSE << >>,
               !.state = "content"],
     out |-> "progress"]

ItemHeadersParsed(p, headers, contentDisposition) ==
    ItemHeadersMatched(p, headers, FilenameMatch(contentDisposition),
                       NameMatch(contentDisposition))

\* One pass of the state 'headers', headersEndIndex the offset of the blank line
ItemHeadersAt(p, headersEndIndex) ==
    IF headersEndIndex = -1 THEN [p |-> p, out |-> "wait"]
    ELSE ItemHeadersParsed(
             [p EXCEPT !.headerText = Take(p.buffer, headersEndIndex),
                       !.buffer = Drop(@, headersEndIndex + 4)],
             PartHeaders(StrSplit(Take(p.buffer, headersEndIndex), CRLF), 1, << >>),
             ValueOf(GetKey(PartHeaders(StrSplit(Take(p.buffer, headersEndIndex), CRLF),
                                        1, << >>),
                            Txt(<<"content-disposition">>))))

\* The threshold branch of the state 'content': an open file part keeps the last
\* ITEM_TAIL bytes in the buffer, a skipped part keeps nothing
ItemFlush(p, safeLength) ==
    IF p.currentFile # << >>
    THEN [p |-> [p EXCEPT
                    !.currentFile = <<PushData(@[1], Take(p.buffer, safeLength))>>,
                    !.buffer = Drop(@, safeLength)],
          out |-> "progress"]
    ELSE [p |-> [p EXCEPT !.buffer = Drop(@, BLen(p.buffer))], out |-> "progress"]

\* One pass of the state 'content': the end marker is looked for first, then the
\* delimiter, then the length of the buffer is tested
ItemContentFound(p, endBoundaryIndex, nextBoundaryIndex) ==
    IF endBoundaryIndex # -1
    THEN [p |-> [ContentEnd(p, endBoundaryIndex) EXCEPT !.callbacks = @ + 1],
          out |-> "done"]
    ELSE IF nextBoundaryIndex # -1
         THEN [p |-> [ContentEnd(p, nextBoundaryIndex) EXCEPT
                         !.buffer = Drop(@, nextBoundaryIndex
                                            + BLen(p.markers.delimiter)),
                         !.state = "headers", !.headerText = << >>],
               out |-> "progress"]
    ELSE IF BLen(p.buffer) > CHUNK_THRESHOLD
         THEN ItemFlush(p, Max0(BLen(p.buffer) - ITEM_TAIL))
    ELSE [p |-> p, out |-> "wait"]

ItemStep(p) ==
    CASE p.state = "boundary" ->
             ItemBoundaryFound(p, IndexOf(p.buffer, p.markers.start, 0))
      [] p.state = "headers" -> ItemHeadersAt(p, IndexOf(p.buffer, CRLF2, 0))
      [] p.state = "content" ->
             ItemContentFound(p, IndexOf(p.buffer, p.markers.end, 0),
                              IndexOf(p.buffer, p.markers.delimiter, 0))

\* The loop of processChunk
RECURSIVE ItemLoop(_)
ItemAfterStep(r) == IF r.out = "progress" THEN ItemLoop(r.p) ELSE r

ItemLoop(p) == ItemAfterStep(ItemStep(p))

\* processChunk(chunk) of the component's server class; nothing in it throws
ItemProcessChunk(p, chunk) == ItemLoop([p EXCEPT !.buffer = Cat(@, chunk)]).p

\* A multipart body: the parts, then the end marker
Body(parts) == parts \o Txt(<<"-", "-">>) \o Boundary \o Txt(<<"-", "-">>) \o CRLF

\* A part's content that is longer than the threshold
LongContent == Bulk(CHUNK_THRESHOLD) \o Txt(<<"x">>)

\* The bodies a client sends after the head of its upload
Bodies ==
    { Body(Part(TRUE, LongContent)),
      Body(Part(FALSE, LongContent)),
      Body(Part(FALSE, LongContent) \o Part(TRUE, Txt(<<"y">>))),
      Body(Part(TRUE, LongContent) \o Part(TRUE, Txt(<<"y">>))),
      Body(Part(TRUE, Txt(<<"x", "y">>)) \o Part(FALSE, Txt(<<"h">>))) }

\* streamMultipartFormData was called for an upload with boundary=bd: the parser
\* is new, its 'data' and 'end' listeners are attached, the body is to come
InitItem ==
    /\ conn = NewConnection
    /\ task = NoTask
    /\ peer = NoPeer
    /\ reader = NoReader
    /\ timeouts = 0
    /\ clientEnd = FALSE
    /\ upstream \in Bodies
    /\ inflight = upstream
    /\ parser = NewItemParser(Boundary)

\* The parser's 'data' listener: the socket delivers the next n runs of the body
ItemData ==
    /\ inflight # << >>
    /\ ~clientEnd
    /\ \E n \in (1..MaxChunk) \cup {Len(inflight)} :
          /\ n <= Len(inflight)
          /\ parser' = ItemProcessChunk(parser, Norm(SubSeq(inflight, 1, n)))
          /\ inflight' = SubSeq(inflight, n + 1, Len(inflight))
    /\ UNCHANGED <<conn, upstream, clientEnd, timeouts, task, peer, reader>>

\* The parser's 'end' listener: req.files = files; callback(req)
ItemEnd ==
    /\ ~clientEnd
    /\ clientEnd' = TRUE
    /\ parser' = [parser EXCEPT !.callbacks = @ + 1]
    /\ UNCHANGED <<conn, upstream, inflight, timeouts, task, peer, reader>>

NextItem == ItemData \/ ItemEnd

SpecItem == InitItem /\ [][NextItem]_vars

\* b ends with the bytes q
EndsWith(b, q) ==
    BLen(b) >= BLen(q) /\ Norm(Drop(b, BLen(b) - BLen(q))) = Norm(q)

\* The beginnings of a marker that are not the whole marker
Beginnings(marker) == {SubSeq(marker, 1, k) : k \in 1..(Len(marker) - 1)}

\* What was delivered of the content of the first part
FirstContent == AfterBlankLine(Delivered)

\* The parser is in the content of the first part: its headers were delivered
\* and no marker after them was delivered whole
InFirstContent ==
    /\ parser.state = "content"
    /\ IndexOf(FirstContent, parser.markers.delimiter, 0) = -1
    /\ IndexOf(FirstContent, parser.markers.end, 0) = -1

\* C27: while the parser is in the content of a part, file part or not, the
\* beginning of a marker that ends the delivered content is still at the end of
\* the buffer, so the marker is found once its rest arrives; and for a file part
\* the flushed bytes followed by the buffer are the delivered content.
C27_TailKept ==
    InFirstContent =>
        /\ \A q \in Beginnings(parser.markers.delimiter)
                    \cup Beginnings(parser.markers.end) :
               EndsWith(FirstContent, q) => EndsWith(parser.buffer, q)
        /\ parser.currentFile # << >> =>
               Norm(Cat(ConcatAll(parser.currentFile[1].data, 1), parser.buffer))
                   = Norm(FirstContent)
====
